---- MODULE Spec2Model ----
(***************************************************************************)
(* Model of the bot orchestration core of server.js (the encrypted-token   *)
(* variant, lines 82-428): the token store, the registry of active bots,   *)
(* the start / stop / status handlers, and pollForTarget.                  *)
(*                                                                         *)
(* Node runs every handler and every callback on one thread, so a step of  *)
(* the model is the code that runs between two suspension points (an       *)
(* await of a network call or of a timer).                                 *)
(***************************************************************************)
EXTENDS Integers, Sequences, FiniteSets, Bags, TLC

VARIABLES
    now,            \* Date.now()
    storedTokens,   \* the token store: sequence of [id, name, tokenEnc]
    activeBots,     \* the registry: targetId -> reference to a bot object, or NoRef
    bots,           \* the heap of bot objects: the registry and the executions in flight
                    \* refer to them; an object nothing refers to is collected
    nextBot,        \* number of bot objects created so far
    timers,         \* setInterval handles: the handle the start of bot b creates is b;
                    \* handle -> targetId it polls, None once cleared or before it exists
    stateFile,      \* data/activeBots.json: <<>> when there is no file, else <<its content>>
    actionLog,      \* data/actions_<targetId>.log: targetId -> the bag of its lines (the
                    \* order of the lines and their time stamps are not modelled)
    tasks,          \* the bag of async executions in flight (start handlers and timer ticks)
    lastEvent,      \* what the step just taken showed to the outside: the response of a
                    \* handler, or a timer firing; NoEvent once it has been seen
    began,          \* history: bot -> post id -> times dispatch began
    issued,         \* history: external action calls issued, <<bot, post id, operation>>
    stopped,        \* history: targetId -> stop returned and no start arrived since
    clock,          \* /api/react: Date.now() at the last request, in ms
    userStatus,     \* /api/react: token -> [used, lastUsed, resetTime], for the tokens seen
    reacts,         \* /api/react: the handlers waiting for their fetch, [token, now]
    reactResponse,  \* /api/react: <<>>, or <<the response sent last>>
    succeeded,      \* history: the values of now of the requests that succeeded, as
                    \* far as a later request can still be within the cooldown of them
    tokenResponse,  \* token management: <<>>, or <<the response sent last>>
    added,          \* history: number of tokens added to the store
    removed,        \* history: the ids of the tokens removed from the store
    logs,           \* the in-memory log of pushLog: the entries, newest first
    pushed,         \* history: number of pushLog calls so far
    pollFailed      \* history: the bot objects a poll of which got no list of posts

\* the state of the /api/react handler, what the token management handlers
\* add to the token store, and the in-memory log
limiter == <<clock, userStatus, reacts, reactResponse, succeeded>>
tokenAdmin == <<tokenResponse, added, removed>>
recent == <<logs, pushed>>
apart == <<limiter, tokenAdmin, recent, pollFailed>>

vars == <<now, storedTokens, activeBots, bots, nextBot, timers,
          stateFile, actionLog, tasks, lastEvent, began, issued, stopped,
          clock, userStatus, reacts, reactResponse, succeeded,
          tokenResponse, added, removed, logs, pushed, pollFailed>>

----------------------------------------------------------------------------
(* Bounds of the model *)

MaxTime == 2        \* the clock runs from 1 to MaxTime
MaxTasks == 2       \* async executions in flight at once
MaxBots == 2        \* bot objects created in one run

None == "none"      \* null / undefined, where the other values are strings
NoRef == 0          \* null / undefined, where the other values are references (1, 2, ...)

Targets == {"T1", "T2"}
BotIds == 1..MaxBots
TimerIds == BotIds

\* sequences over S of length lo..hi
SeqsOf(S, lo, hi) == UNION {[1..n -> S] : n \in lo..hi}

----------------------------------------------------------------------------
(* Time stamps.  Date.now() is a number; created_time and the activatedAt  *)
(* of status() are ISO strings.                                            *)

IsoTable == << "1970-01-01T00:00:00.000Z", "1970-01-01T00:00:00.001Z",
               "1970-01-01T00:00:00.002Z", "1970-01-01T00:00:00.003Z",
               "1970-01-01T00:00:00.004Z", "1970-01-01T00:00:00.005Z" >>

\* new Date(n).toISOString()
toISOString(n) == IsoTable[n + 1]

\* JavaScript values a number-valued expression can have
Num(n) == [kind |-> "number", value |-> n]
NaN == [kind |-> "NaN", value |-> 0]
Null == [kind |-> "null", value |-> 0]

\* Date.parse(s): the epoch milliseconds, NaN for a string that is no date
DateParse(s) ==
    IF \E n \in 1..Len(IsoTable) : IsoTable[n] = s
    THEN Num((CHOOSE n \in 1..Len(IsoTable) : IsoTable[n] = s) - 1)
    ELSE NaN

\* JavaScript truthiness: of a string or null, and of a number, NaN or null
Truthy(v) == v \notin {None, ""}
TruthyNum(v) == v.kind = "number" /\ v.value # 0

----------------------------------------------------------------------------
(* Encryption helpers (AES-256-GCM), symbolically: a ciphertext names the  *)
(* key, the nonce and the plaintext it was made from, the tag names the    *)
(* key, the nonce and the ciphertext it authenticates.                     *)

ENC_KEY == "key-of-this-process"
OTHER_KEY == "key-of-an-earlier-secret.key"

GcmCipher(key, iv, text) == <<"enc", key, iv, text>>
GcmTag(key, iv, enc) == <<"tag", key, iv, enc>>

\* a JavaScript string with an unpaired surrogate (\uD800 and 11 characters),
\* and the string with U+FFFD in its place
LoneSurrogate == "<D800>-EAAB-token"
Replaced == "<FFFD>-EAAB-token"

\* text.length, in UTF-16 code units
length(text) == IF text \in {LoneSurrogate, Replaced} THEN Len(text) - 5 ELSE Len(text)

\* the bytes cipher.update(text, 'utf8') reads: the UTF-8 encoding of the
\* string, with the bytes of U+FFFD for an unpaired surrogate
utf8Write(text) == <<"utf8", IF text = LoneSurrogate THEN Replaced ELSE text>>

\* out.toString('utf8'): the string the bytes encode
utf8ToString(bytes) == bytes[2]

\* the three parts of Buffer.concat([iv, tag, enc]): bytes 0-11, 12-27 and the
\* rest, for the text encrypted under key with the nonce iv
Sealed(key, text, iv) ==
    LET enc == GcmCipher(key, iv, utf8Write(text))
    IN  [iv |-> iv, tag |-> GcmTag(key, iv, enc), enc |-> enc]

\* the token encrypted under a key that is not the key of the process
encrypt_OtherKey(text, iv) == Sealed(OTHER_KEY, text, iv)

encrypt(text, iv) == Sealed(ENC_KEY, text, iv)

\* the tag not verified: whatever the bytes decode to is returned
decrypt_NoAuth(c) == utf8ToString(c.enc[4])

\* decipher.final() throws when the tag does not authenticate; decrypt then returns null
decrypt(c) ==
    IF c.tag = GcmTag(ENC_KEY, c.iv, c.enc) /\ c.enc[2] = ENC_KEY /\ c.enc[3] = c.iv
    THEN utf8ToString(c.enc[4])
    ELSE None

----------------------------------------------------------------------------
(* Token store *)

\* tokens.json as loadJSON finds it: two entries of this process's key and one
\* written under an earlier key, which no longer decrypts
InitialTokens ==
    << [id |-> "a", name |-> "acc-a", tokenEnc |-> encrypt("EAAB-token-of-a", "iv1"),
        createdAt |-> toISOString(0)],
       [id |-> "b", name |-> "acc-b", tokenEnc |-> encrypt("EAAB-token-of-b", "iv2"),
        createdAt |-> toISOString(0)],
       [id |-> "c", name |-> "acc-c",
        tokenEnc |-> Sealed(OTHER_KEY, "EAAB-token-of-c", "iv3"),
        createdAt |-> toISOString(0)] >>

\* storedTokens.find(t => t.id === id) finds an entry
HasToken(store, id) == \E k \in 1..Len(store) : store[k].id = id

\* the entry it finds: the first with that id
FindToken(store, id) ==
    store[CHOOSE k \in 1..Len(store) :
            /\ store[k].id = id
            /\ \A j \in 1..(k - 1) : store[j].id # id]

\* the "if (!tok) continue" left out: an entry that fails to decrypt is kept
RECURSIVE buildAccounts_KeepFailed(_, _)
buildAccounts_KeepFailed(store, tokenIds) ==
    IF tokenIds = <<>> THEN <<>>
    ELSE LET rest == buildAccounts_KeepFailed(store, Tail(tokenIds))
         IN  IF ~HasToken(store, Head(tokenIds)) THEN rest
             ELSE LET e == FindToken(store, Head(tokenIds))
                  IN  <<[id |-> e.id, name |-> e.name, token |-> decrypt(e.tokenEnc)]>> \o rest

RECURSIVE buildAccounts(_, _)
buildAccounts(store, tokenIds) ==
    IF tokenIds = <<>> THEN <<>>
    ELSE LET rest == buildAccounts(store, Tail(tokenIds))
         IN  IF ~HasToken(store, Head(tokenIds)) THEN rest
             ELSE LET e == FindToken(store, Head(tokenIds))
                      tok == decrypt(e.tokenEnc)
                  IN  IF ~Truthy(tok) THEN rest
                      ELSE <<[id |-> e.id, name |-> e.name, token |-> tok]>> \o rest

buildAccountsFromIds(tokenIds) == buildAccounts(storedTokens, tokenIds)

\* the tokenIds lists of the start requests: "d" is in no store
TokenIdLists == { <<"a">>, <<"c", "a", "b">>, <<"c">>, <<"d", "c">> }

\* the reactions / comment / perAccountDelayMs of the start requests
Metas == { [reactions |-> <<"LIKE", "LOVE">>, comment |-> "hi", perAccountDelayMs |-> 1000] }

----------------------------------------------------------------------------
(* Active bots *)

\* a bot object as the start handler creates it
NewBot(accounts, meta, at) ==
    [intervalId |-> NoRef, processedPosts |-> {}, activatedAt |-> at,
     accounts |-> accounts, meta |-> meta, running |-> TRUE]

\* a bot object as restoreState creates it: restored, activatedAt and meta, and
\* no other property
RestoredBot(s) ==
    [restored |-> TRUE, activatedAt |-> s.activatedAt, meta |-> s.meta]

\* a slot of the heap no bot object was created in yet
NoBot == [free |-> TRUE]

\* b.<property> is not undefined
Has(b, property) == property \in DOMAIN b

\* b.running as a condition: undefined is falsy
IsRunning(b) == Has(b, "running") /\ b.running

\* the keys of the registry
BotKeys(reg) == {t \in Targets : reg[t] # NoRef}

\* what persistBotsState writes: one {targetId, activatedAt, meta} per registry
\* entry (the order of the array is not modelled)
persistBotsState(reg, heap) ==
    {[targetId |-> t, activatedAt |-> heap[reg[t]].activatedAt, meta |-> heap[reg[t]].meta] :
        t \in BotKeys(reg)}

\* activeBots.json as it may be found at process start: absent, or written by
\* an earlier process that had a bot for T1
SavedFiles ==
    { <<>>,
      <<{[targetId |-> "T1", activatedAt |-> 1, meta |-> CHOOSE m \in Metas : TRUE]}>> }

\* what res.json(...) of the handlers sends: the HTTP status
HttpOk == 200
HttpBadRequest == 400
HttpNotFound == 404
HttpError == 500

\* GET /api/status: b.accounts.map throws for an entry without accounts, and the
\* request ends in Express's error response
status ==
    IF \E t \in BotKeys(activeBots) : ~Has(bots[activeBots[t]], "accounts")
    THEN [code |-> HttpError, bots |-> {}]
    ELSE [code |-> HttpOk,
          bots |-> {[targetId |-> t,
                     activatedAt |-> toISOString(bots[activeBots[t]].activatedAt),
                     accounts |-> [k \in DOMAIN bots[activeBots[t]].accounts |->
                                     [id |-> bots[activeBots[t]].accounts[k].id,
                                      name |-> bots[activeBots[t]].accounts[k].name]],
                     reactions |-> bots[activeBots[t]].meta.reactions] :
                    t \in BotKeys(activeBots)}]


----------------------------------------------------------------------------
(* The content source and pollForTarget's filter *)

\* the posts the content source knows: created at 0, 1, 2 and 3 ms, one
\* without a created_time and one whose created_time is no date
Posts ==
    { [id |-> "p0", created_time |-> toISOString(0)],
      [id |-> "p1", created_time |-> toISOString(1)],
      [id |-> "p2", created_time |-> toISOString(2)],
      [id |-> "p3", created_time |-> toISOString(3)],
      [id |-> "pN", created_time |-> None],
      [id |-> "pU", created_time |-> "yesterday"] }

PostIds == {p.id : p \in Posts}
PostOf(id) == CHOOSE p \in Posts : p.id = id

\* what graphGetPosts resolves to: a body without a data array (an error, a
\* failed transport, an unparseable body), or data with any posts in any order
NoData == <<"no data">>
Results(batches) == {NoData} \cup {<<"data", d>> : d \in batches}

\* the responses of the content source: no post, any one of the three oldest
\* posts, and p2 before p0
Batches == SeqsOf({PostOf("p0"), PostOf("p1"), PostOf("p2")}, 0, 1) \cup { <<PostOf("p2"), PostOf("p0")>> }
FetchResults == Results(Batches)

\* const created = p.created_time ? Date.parse(p.created_time) : null
CreatedOf(p) == IF Truthy(p.created_time) THEN DateParse(p.created_time) ELSE Null

\* if (created && created <= bot.activatedAt) continue
TooOld(b, p) == TruthyNum(CreatedOf(p)) /\ CreatedOf(p).value <= b.activatedAt

\* the has() check left out
Seen_NoCheck(b, p) == FALSE

\* if (bot.processedPosts.has(postId)) continue
Seen(b, p) == p.id \in b.processedPosts

\* the post loop up to the first post it does not skip: that post and the
\* posts after it, or <<>>
RECURSIVE SkipPosts(_, _)
SkipPosts(b, posts) ==
    IF posts = <<>> THEN <<>>
    ELSE IF TooOld(b, Head(posts)) \/ Seen(b, Head(posts)) THEN SkipPosts(b, Tail(posts))
    ELSE posts

----------------------------------------------------------------------------
(* Graph helpers and retry *)

\* a JavaScript value a Graph call resolves to: null, or an object with the
\* properties retry reads (None: the property is absent)
EmptyObject ==
    [kind |-> "object", error |-> None, error_description |-> None,
     error_message |-> None, error_code |-> None, id |-> None]
JsNull == [EmptyObject EXCEPT !.kind = "null"]

\* r.json(): the bodies that parse as JSON, and what they parse to
JsonTable ==
    [body \in {"{id}", "{error}", "{error_message}", "null"} |->
        CASE body = "{id}" -> [EmptyObject EXCEPT !.id = "1_2"]
          [] body = "{error}" -> [EmptyObject EXCEPT !.error = "{message,type,code}"]
          [] body = "{error_message}" -> [EmptyObject EXCEPT !.error_message = "blocked"]
          [] body = "null" -> JsNull]
Parses(body) == body \in DOMAIN JsonTable

\* what fetch(url, opts) does: it throws (no connection), or it resolves to a
\* response with a status and a body
NetworkError == [thrown |-> TRUE, status |-> 0, body |-> ""]
Response(code, body) == [thrown |-> FALSE, status |-> code, body |-> body]
OkResponse == Response(HttpOk, "{id}")
HttpResponses ==
    { OkResponse,
      Response(HttpBadRequest, "{error}"),
      Response(HttpBadRequest, "{error_message}"),
      Response(HttpError, ""),
      Response(HttpError, "<html>"),
      Response(HttpOk, "null"),
      NetworkError }

\* the url of a Graph call made with token: its last parameter is
\* encodeURIComponent(token), which for the tokens of the model (letters,
\* digits and "-") is the token itself
GraphUrl(token) == "https://graph.facebook.com/v18.0/...&access_token=" \o token

\* err.message of the error fetch rejects with when the request fails
\* (node-fetch: `request to ${url} failed, reason: ${err.message}`)
FetchErrorMessage(url) == "request to " \o url \o " failed, reason: ECONNRESET"

\* fetchJson: the parsed body, {} for a body that does not parse, and
\* {error: err.message} when fetch throws; the status is not looked at
fetchJson(url, r) ==
    IF r.thrown THEN [EmptyObject EXCEPT !.error = FetchErrorMessage(url)]
    ELSE IF Parses(r.body) THEN JsonTable[r.body]
    ELSE EmptyObject

\* retry(fn, attempts=3, baseDelayMs=700)
attempts == 3
baseDelayMs == 700

\* !res || res.error || res.error_description || res.error_message || res.error_code
IsFailure(res) ==
    \/ res.kind = "null"
    \/ Truthy(res.error)
    \/ Truthy(res.error_description)
    \/ Truthy(res.error_message)
    \/ Truthy(res.error_code)

\* the delay not doubled
Backoff_Flat(i) == baseDelayMs

\* baseDelayMs * Math.pow(2, i)
Backoff(i) == baseDelayMs * 2^i

\* setTimeout(r, ms) resolves after ms, or later
Elapsed(ms) == {ms, ms + 1}

\* what is known of the retry call that returned last in an execution
NoRetry == [op |-> None, calls |-> 0, fails |-> 0, result |-> JsNull]

----------------------------------------------------------------------------
(* Async executions *)

NoMeta == [reactions |-> <<>>, comment |-> None, perAccountDelayMs |-> 0]

\* an execution: the handler or callback it runs (kind), the await it is
\* suspended at (pc), and its local variables
NewTask ==
    [kind |-> "tick", pc |-> "fetch", target |-> None, bot |-> NoRef, accounts |-> <<>>,
     meta |-> NoMeta, i |-> 0, post |-> None, rest |-> <<>>, sawOk |-> FALSE,
     \* of the retry call in progress: its loop index, lastErr, whether it awaits
     \* its timer, the calls of fn and the failures so far, the time between
     \* the end of the attempt before and this one
     attempt |-> 0, lastErr |-> JsNull, backoff |-> FALSE, calls |-> 0, fails |-> 0,
     waited |-> 0,
     \* reactRes, commentRes: the results of the account so far
     results |-> <<>>,
     last |-> NoRetry]

InFlight == BagToSet(tasks)
HasFreeTask == BagCardinality(tasks) < MaxTasks
Put(tks, tk) == tks (+) SetToBag({tk})
Take(tks, tk) == tks (-) SetToBag({tk})

Event(op, t, code, kind) == [op |-> op, target |-> t, code |-> code, kind |-> kind, overlap |-> FALSE]
NoEvent == Event("", None, 0, "")

Operations == {"react", "comment", "share"}

\* retry(() => graph...(acc.token, postId, ...), 3) is called: its loop starts
\* with i = 0 and calls fn
Invoke(tk, op) ==
    [tk EXCEPT !.pc = op, !.attempt = 0, !.lastErr = JsNull, !.backoff = FALSE,
               !.calls = 1, !.fails = 0, !.waited = 0]

\* no retry call is in progress
Idle(tk, pc) == [Invoke(tk, pc) EXCEPT !.calls = 0]

\* one more in a history count, which stops counting at 2
Bump(n) == IF n < 2 THEN n + 1 ELSE n

\* a collected bot object
Collected == [collected |-> TRUE]

\* the bot objects the registry reg and the executions tks refer to
Live(reg, tks) == ({reg[t] : t \in Targets} \cup {tk.bot : tk \in BagToSet(tks)}) \ {NoRef}

\* the new registry, heap and executions of a step; objects nothing refers to
\* any more are collected, and the history of a collected object with them
Commit(reg, heap, tks, bg, iss) ==
    /\ activeBots' = reg
    /\ tasks' = tks
    /\ bots' = [b \in BotIds |->
                  IF b \in Live(reg, tks) \/ Has(heap[b], "free") THEN heap[b] ELSE Collected]
    /\ began' = [b \in BotIds |-> IF b \in Live(reg, tks) THEN bg[b] ELSE [p \in PostIds |-> 0]]
    /\ issued' = {c \in iss : c[1] \in Live(reg, tks)}

----------------------------------------------------------------------------
(* Initial state: the module has been loaded, restoreState has run *)

Init ==
    /\ now = 1
    /\ storedTokens = InitialTokens
    /\ \E saved \in SavedFiles :
          /\ stateFile = saved
          /\ IF saved = <<>>
             THEN /\ activeBots = [t \in Targets |-> NoRef]
                  /\ bots = [b \in BotIds |-> NoBot]
                  /\ nextBot = 0
             ELSE \* one restored entry per saved record
                  LET s == CHOOSE r \in saved[1] : TRUE
                  IN  /\ activeBots = [t \in Targets |-> IF t = s.targetId THEN 1 ELSE NoRef]
                      /\ bots = [b \in BotIds |-> IF b = 1 THEN RestoredBot(s) ELSE NoBot]
                      /\ nextBot = 1
    /\ timers = [h \in TimerIds |-> None]
    /\ actionLog = [t \in Targets |-> EmptyBag]
    /\ tasks = EmptyBag
    /\ lastEvent = NoEvent
    /\ clock = 0
    /\ userStatus = <<>>
    /\ reacts = {}
    /\ reactResponse = <<>>
    /\ succeeded = {}
    /\ tokenResponse = <<>>
    /\ added = 0
    /\ removed = {}
    /\ logs = <<>>
    /\ pushed = 0
    /\ pollFailed = {}
    /\ began = [b \in BotIds |-> [p \in PostIds |-> 0]]
    /\ issued = {}
    /\ stopped = [t \in Targets |-> FALSE]

----------------------------------------------------------------------------
(* pollForTarget *)

\* pollForTarget returns.  In a timer tick nothing follows.  In the start
\* handler the code after the await runs: setInterval, and the response.
PollReturn(tk) ==
    IF tk.kind = "start"
    THEN /\ timers' = [timers EXCEPT ![tk.bot] = tk.target]
         /\ Commit(activeBots,
                   [bots EXCEPT ![tk.bot].intervalId = tk.bot],
                   BagOfAll(LAMBDA x : IF x.kind = "start" /\ x.target = tk.target
                                       THEN [x EXCEPT !.sawOk = TRUE] ELSE x,
                            Take(tasks, tk)),
                   began, issued)
         /\ lastEvent' = [Event("start", tk.target, HttpOk, "Bot started")
                            EXCEPT !.overlap = tk.sawOk]
    ELSE /\ Commit(activeBots, bots, Take(tasks, tk), began, issued)
         /\ lastEvent' = NoEvent
         /\ UNCHANGED timers

\* bot.processedPosts.add(postId) left out of the loop
PollLoop_NoMark(tk, posts) ==
    LET s == SkipPosts(bots[tk.bot], posts)
    IN  IF s # <<>>
        THEN /\ Commit(activeBots, bots,
                       Put(Take(tasks, tk),
                           [Invoke(tk, "react") EXCEPT !.i = 1, !.post = Head(s).id,
                                                       !.rest = Tail(s)]),
                       [began EXCEPT ![tk.bot][Head(s).id] = Bump(@)],
                       issued \cup {<<tk.bot, Head(s).id, 1, "react">>})
             /\ lastEvent' = NoEvent
             /\ UNCHANGED timers
        ELSE PollReturn(tk)

\* the post loop from `posts` on, up to its next await: the id of the first
\* post not skipped is added to processedPosts and the first account reacts
PollLoop(tk, posts) ==
    LET s == SkipPosts(bots[tk.bot], posts)
    IN  IF s # <<>>
        THEN /\ Commit(activeBots,
                       [bots EXCEPT ![tk.bot].processedPosts = @ \cup {Head(s).id}],
                       Put(Take(tasks, tk),
                           [Invoke(tk, "react") EXCEPT !.i = 1, !.post = Head(s).id,
                                                       !.rest = Tail(s)]),
                       [began EXCEPT ![tk.bot][Head(s).id] = Bump(@)],
                       issued \cup {<<tk.bot, Head(s).id, 1, "react">>})
             /\ lastEvent' = NoEvent
             /\ UNCHANGED timers
        ELSE PollReturn(tk)

\* graphGetPosts resolves
FetchReturn(tk, r) ==
    /\ tk.pc = "fetch"
    /\ IF r[1] = "data" THEN PollLoop(tk, r[2]) ELSE PollReturn(tk)
    /\ UNCHANGED <<now, storedTokens, nextBot, stateFile, actionLog, stopped>>

\* the entry written once for each of the three operations
appendLog_PerOperation(log, entry) == log (+) SetToBag({entry}) (+) SetToBag({entry}) (+) SetToBag({entry})

\* fs.appendFileSync(logfile, JSON.stringify(entry) + '\n')
appendLog(log, entry) == log (+) SetToBag({entry})

\* comment and share called together when react has returned
RetryReturn_Parallel(tk, res) ==
    LET acc == bots[tk.bot].accounts[tk.i]
        done == [tk EXCEPT !.last = [op |-> tk.pc, calls |-> tk.calls, fails |-> tk.fails,
                                     result |-> res]]
    IN  /\ IF tk.pc = "share"
           THEN /\ actionLog' = [actionLog EXCEPT ![tk.target] =
                                   appendLog(@, [targetId |-> tk.target, postId |-> tk.post,
                                                 accountId |-> acc.id, accountName |-> acc.name,
                                                 reactionResult |-> tk.results[1],
                                                 commentResult |-> tk.results[2],
                                                 shareResult |-> res])]
                /\ Commit(activeBots, bots,
                          Put(Take(tasks, tk), [Idle(done, "delay") EXCEPT !.results = <<>>]),
                          began, issued)
           ELSE LET op == IF tk.pc = "react" THEN "comment" ELSE "share"
                IN  /\ Commit(activeBots, bots,
                              Put(Take(tasks, tk),
                                  [Invoke(done, op) EXCEPT !.results = Append(tk.results, res)]),
                              began,
                              issued \cup {<<tk.bot, tk.post, tk.i, "comment">>,
                                           <<tk.bot, tk.post, tk.i, "share">>})
                    /\ UNCHANGED actionLog
        /\ lastEvent' = NoEvent
        /\ UNCHANGED <<now, storedTokens, nextBot, timers, stateFile, stopped>>

\* retry(...) of react, comment or share returns res: the next operation of the
\* account is called; after share the entry is appended to the target's log and
\* the delay between accounts starts
RetryReturn(tk, res) ==
    LET acc == bots[tk.bot].accounts[tk.i]
        done == [tk EXCEPT !.last = [op |-> tk.pc, calls |-> tk.calls, fails |-> tk.fails,
                                     result |-> res]]
    IN  /\ IF tk.pc = "share"
           THEN /\ actionLog' = [actionLog EXCEPT ![tk.target] =
                                   appendLog(@, [targetId |-> tk.target, postId |-> tk.post,
                                                 accountId |-> acc.id, accountName |-> acc.name,
                                                 reactionResult |-> tk.results[1],
                                                 commentResult |-> tk.results[2],
                                                 shareResult |-> res])]
                /\ Commit(activeBots, bots,
                          Put(Take(tasks, tk), [Idle(done, "delay") EXCEPT !.results = <<>>]),
                          began, issued)
           ELSE LET op == IF tk.pc = "react" THEN "comment" ELSE "share"
                IN  /\ Commit(activeBots, bots,
                              Put(Take(tasks, tk),
                                  [Invoke(done, op) EXCEPT !.results = Append(tk.results, res)]),
                              began, issued \cup {<<tk.bot, tk.post, tk.i, op>>})
                    /\ UNCHANGED actionLog
        /\ lastEvent' = NoEvent
        /\ UNCHANGED <<now, storedTokens, nextBot, timers, stateFile, stopped>>

\* the url of the Graph call the execution awaits: made with acc.token
UrlOf(tk) == GraphUrl(bots[tk.bot].accounts[tk.i].token)

\* const res = await fn() resolves, fn's fetch having ended as resp: a failure
\* is kept in lastErr and the timer of the backoff is set, any other result is
\* returned
CallReturn(tk, resp) ==
    LET res == fetchJson(UrlOf(tk), resp)
    IN  /\ tk.pc \in Operations
        /\ ~tk.backoff
        /\ IF IsFailure(res)
           THEN /\ Commit(activeBots, bots,
                          Put(Take(tasks, tk),
                              [tk EXCEPT !.lastErr = res, !.backoff = TRUE,
                                           !.fails = tk.fails + 1]),
                          began, issued)
                /\ lastEvent' = NoEvent
                /\ UNCHANGED <<now, storedTokens, nextBot, timers, stateFile, actionLog, stopped>>
           ELSE RetryReturn(tk, res)

\* lastErr thrown instead of returned: pollForTarget ends with it
Exhausted_Throws(tk) ==
    /\ PollReturn(tk)
    /\ UNCHANGED <<now, storedTokens, nextBot, stateFile, actionLog, stopped>>

\* the loop has ended without a result: return lastErr
Exhausted(tk) == RetryReturn(tk, tk.lastErr)

\* the loop of retry without its bound: a failed call is always made again
BackoffReturn_Unbounded(tk, ms) ==
    /\ tk.pc \in Operations
    /\ tk.backoff
    /\ ms \in Elapsed(Backoff(tk.attempt))
    /\ Commit(activeBots, bots,
              Put(Take(tasks, tk),
                  [tk EXCEPT !.attempt = tk.attempt + 1, !.backoff = FALSE,
                             !.calls = tk.calls + 1, !.waited = ms]),
              began, issued)
    /\ lastEvent' = NoEvent
    /\ UNCHANGED <<now, storedTokens, nextBot, timers, stateFile, actionLog, stopped>>

\* the timer of the backoff resolves after `ms`: the next attempt calls fn, or
\* the loop ends
BackoffReturn(tk, ms) ==
    /\ tk.pc \in Operations
    /\ tk.backoff
    /\ ms \in Elapsed(Backoff(tk.attempt))
    /\ IF tk.attempt + 1 < attempts
       THEN /\ Commit(activeBots, bots,
                      Put(Take(tasks, tk),
                          [tk EXCEPT !.attempt = tk.attempt + 1, !.backoff = FALSE,
                                     !.calls = tk.calls + 1, !.waited = ms]),
                      began, issued)
            /\ lastEvent' = NoEvent
            /\ UNCHANGED <<now, storedTokens, nextBot, timers, stateFile, actionLog, stopped>>
       ELSE Exhausted(tk)

\* retry(...) of react, comment or share resolves at its first attempt, the
\* Graph call having succeeded
ActionReturn(tk) == CallReturn(tk, OkResponse)

\* bot.running looked at before the next account and the next post: a stopped
\* Watch ends the poll
DelayReturn_UntilStopped(tk) ==
    /\ tk.pc = "delay"
    /\ IF ~IsRunning(bots[tk.bot])
       THEN PollReturn(tk)
       ELSE IF tk.i < Len(bots[tk.bot].accounts)
            THEN /\ Commit(activeBots, bots,
                           Put(Take(tasks, tk), [Invoke(tk, "react") EXCEPT !.i = tk.i + 1]),
                           began, issued \cup {<<tk.bot, tk.post, tk.i + 1, "react">>})
                 /\ lastEvent' = NoEvent
                 /\ UNCHANGED timers
            ELSE PollLoop(tk, tk.rest)
    /\ UNCHANGED <<now, storedTokens, nextBot, stateFile, actionLog, stopped>>

\* the loop over the accounts left after its first round
DelayReturn_Break(tk) ==
    /\ tk.pc = "delay"
    /\ PollLoop(tk, tk.rest)
    /\ UNCHANGED <<now, storedTokens, nextBot, stateFile, actionLog, stopped>>

\* the delay between accounts is over: the next account, or the next post
DelayReturn(tk) ==
    /\ tk.pc = "delay"
    /\ IF tk.i < Len(bots[tk.bot].accounts)
       THEN /\ Commit(activeBots, bots,
                      Put(Take(tasks, tk), [Invoke(tk, "react") EXCEPT !.i = tk.i + 1]),
                      began, issued \cup {<<tk.bot, tk.post, tk.i + 1, "react">>})
            /\ lastEvent' = NoEvent
            /\ UNCHANGED timers
       ELSE PollLoop(tk, tk.rest)
    /\ UNCHANGED <<now, storedTokens, nextBot, stateFile, actionLog, stopped>>

\* the rejection of pollForTarget not caught: the process ends, and with it
\* every Watch, timer and execution
AppendThrows_Unhandled(tk, resp) ==
    /\ tk.pc = "share"
    /\ ~tk.backoff
    /\ ~IsFailure(fetchJson(UrlOf(tk), resp))
    /\ activeBots' = [t \in Targets |-> NoRef]
    /\ bots' = [b \in BotIds |-> IF Has(bots[b], "free") THEN bots[b] ELSE Collected]
    /\ timers' = [h \in TimerIds |-> None]
    /\ tasks' = EmptyBag
    /\ began' = [b \in BotIds |-> [p \in PostIds |-> 0]]
    /\ issued' = {}
    /\ lastEvent' = NoEvent
    /\ UNCHANGED <<now, storedTokens, nextBot, stateFile, actionLog, stopped>>

\* the share call resolves to a result retry returns, and fs.appendFileSync
\* throws (the data directory is gone, the disk is full): no entry is written,
\* the promise of pollForTarget rejects, and .catch(e=>console.error(e)) of the
\* caller takes the error.  In a timer tick nothing follows; in the start
\* handler setInterval and the response do.
AppendThrows(tk, resp) ==
    /\ tk.pc = "share"
    /\ ~tk.backoff
    /\ ~IsFailure(fetchJson(UrlOf(tk), resp))
    /\ PollReturn(tk)
    /\ UNCHANGED <<now, storedTokens, nextBot, stateFile, actionLog, stopped>>

\* a setInterval handle fires: pollForTarget(targetId) up to its first await
TimerFire(h) ==
    LET t == timers[h]
    IN  /\ t # None
        /\ IF activeBots[t] # NoRef /\ IsRunning(bots[activeBots[t]])
           THEN /\ HasFreeTask
                /\ tasks' = Put(tasks, [NewTask EXCEPT !.kind = "tick", !.pc = "fetch",
                                                       !.target = t, !.bot = activeBots[t]])
                /\ lastEvent' = Event("tick", t, 0, "fetch")
           ELSE /\ lastEvent' = Event("tick", t, 0, "no bot")
                /\ UNCHANGED tasks
        /\ UNCHANGED <<now, storedTokens, activeBots, bots, nextBot, timers,
                       stateFile, actionLog, began, issued, stopped>>

----------------------------------------------------------------------------
(* POST /api/start-bot *)

\* the check for a running bot left out
AlreadyRunning_NoCheck(t) == FALSE

\* activeBots[targetId] && activeBots[targetId].running
AlreadyRunning(t) == activeBots[t] # NoRef /\ IsRunning(bots[activeBots[t]])

\* what the token exchange hands out for a short-lived token
LongLivedToken == "EAAB-long-lived-token"

\* "create bot entry" to the first await of the immediate poll: the entry is
\* put in the registry, the state file is written, and pollForTarget finds the
\* entry running and asks for the posts.  tks: the other executions in flight
CreateEntry(tks, tk, accounts, meta) ==
    LET b == nextBot + 1
        reg == [activeBots EXCEPT ![tk.target] = b]
    IN  /\ nextBot < MaxBots
        /\ nextBot' = b
        /\ \E at \in now..MaxTime :     \* Date.now(): time has passed, or not
              LET heap == [bots EXCEPT ![b] = NewBot(accounts, meta, at)]
              IN  /\ now' = at
                  /\ stateFile' = <<persistBotsState(reg, heap)>>
                  /\ Commit(reg, heap,
                            Put(tks, [NewTask EXCEPT !.kind = "start", !.pc = "fetch",
                                                     !.target = tk.target, !.bot = b,
                                                     !.sawOk = tk.sawOk]),
                            began, issued)

\* the handler up to its first await, for a request that passes the checks of
\* tokenIds, targetId and reactions; exch: appId and appSecret are given
StartBot(t, tokenIds, meta, exch) ==
    /\ stopped' = [stopped EXCEPT ![t] = FALSE]
    /\ IF AlreadyRunning(t)
       THEN /\ lastEvent' = Event("start", t, HttpOk, "Bot already running for this target")
            /\ UNCHANGED <<now, activeBots, bots, nextBot, stateFile, tasks, began, issued>>
       ELSE LET accounts == buildAccountsFromIds(tokenIds)
                tk == [NewTask EXCEPT !.kind = "start", !.pc = "exchange", !.target = t,
                                      !.accounts = accounts, !.meta = meta, !.i = 1]
            IN  IF Len(accounts) = 0
                THEN /\ lastEvent' = Event("start", t, HttpBadRequest, "no valid stored tokens found")
                     /\ UNCHANGED <<now, activeBots, bots, nextBot, stateFile, tasks, began, issued>>
                ELSE /\ HasFreeTask
                     /\ lastEvent' = NoEvent
                     /\ IF exch
                        THEN /\ tasks' = Put(tasks, tk)
                             /\ UNCHANGED <<now, activeBots, bots, nextBot, stateFile, began, issued>>
                        ELSE CreateEntry(tasks, tk, accounts, meta)
    /\ UNCHANGED <<storedTokens, timers, actionLog>>

\* the exchange call for accounts[i] resolves, with an access_token or without
ExchangeReturn(tk, ok) ==
    LET accounts == IF ok THEN [tk.accounts EXCEPT ![tk.i].token = LongLivedToken]
                    ELSE tk.accounts
    IN  /\ tk.pc = "exchange"
        /\ lastEvent' = NoEvent
        /\ IF tk.i < Len(accounts)
           THEN /\ tasks' = Put(Take(tasks, tk), [tk EXCEPT !.accounts = accounts, !.i = tk.i + 1])
                /\ UNCHANGED <<now, activeBots, bots, nextBot, stateFile, began, issued>>
           ELSE CreateEntry(Take(tasks, tk), tk, accounts, tk.meta)
        /\ UNCHANGED <<storedTokens, timers, actionLog, stopped>>

----------------------------------------------------------------------------
(* POST /api/stop-bot, GET /api/status *)

\* bot.running = false
SetNotRunning(b) == [f \in DOMAIN b \cup {"running"} |-> IF f = "running" THEN FALSE ELSE b[f]]

\* the state file written although there is no bot to stop
StopNothing_Persist(t) ==
    /\ lastEvent' = Event("stop", t, HttpOk, "No active bot for this target")
    /\ stateFile' = <<persistBotsState(activeBots, bots)>>
    /\ UNCHANGED <<activeBots, bots, timers, tasks, began, issued>>

\* if (!bot) return res.json({ success: false, message: 'No active bot for this target' })
StopNothing(t) ==
    /\ lastEvent' = Event("stop", t, HttpOk, "No active bot for this target")
    /\ UNCHANGED <<activeBots, bots, timers, stateFile, tasks, began, issued>>

StopBot(t) ==
    LET b == activeBots[t]
        heap == [bots EXCEPT ![b] = SetNotRunning(@)]
        reg == [activeBots EXCEPT ![t] = NoRef]
    IN  /\ stopped' = [stopped EXCEPT ![t] = TRUE]
        /\ IF b = NoRef
           THEN StopNothing(t)
           ELSE /\ timers' = IF Has(bots[b], "intervalId") /\ bots[b].intervalId # NoRef
                             THEN [timers EXCEPT ![bots[b].intervalId] = None]
                             ELSE timers
                /\ Commit(reg, heap, tasks, began, issued)
                /\ stateFile' = <<persistBotsState(reg, heap)>>
                /\ lastEvent' = Event("stop", t, HttpOk, "Bot stopped")
        /\ UNCHANGED <<now, storedTokens, nextBot, actionLog>>

GetStatus ==
    /\ lastEvent' = Event("status", None, status.code, "")
    /\ UNCHANGED <<now, storedTokens, activeBots, bots, nextBot, timers,
                   stateFile, actionLog, tasks, began, issued, stopped>>

----------------------------------------------------------------------------

\* the event of the last step has been seen; the event loop takes its next job
Settle ==
    /\ lastEvent # NoEvent
    /\ lastEvent' = NoEvent
    /\ UNCHANGED <<now, storedTokens, activeBots, bots, nextBot, timers,
                   stateFile, actionLog, tasks, began, issued, stopped>>
    /\ UNCHANGED apart

\* the event loop takes a job only when the step before it is over
Ready == lastEvent = NoEvent

\* the handlers and callbacks, for the requests and responses given: start and
\* stop requests for the targets ts, with the tokenIds lists ids and with or
\* without appId and appSecret (exch), and the responses rs of the content source
Step(ts, ids, exch, rs) ==
    \/ \E t \in ts, l \in ids, meta \in Metas, e \in exch : Ready /\ UNCHANGED apart /\ StartBot(t, l, meta, e)
    \/ \E tk \in InFlight, r \in rs : Ready /\ UNCHANGED apart /\ FetchReturn(tk, r)
    \/ \E tk \in InFlight : Ready /\ UNCHANGED apart /\ ActionReturn(tk)
    \/ \E tk \in InFlight : Ready /\ UNCHANGED apart /\ DelayReturn(tk)
    \/ \E h \in TimerIds : Ready /\ UNCHANGED apart /\ TimerFire(h)
    \/ \E t \in ts : Ready /\ UNCHANGED apart /\ StopBot(t)
    \/ Ready /\ UNCHANGED apart /\ GetStatus
    \/ Settle

\* one target, every tokenIds list and every response of the content source
Next == Step({"T1"}, TokenIdLists, {FALSE}, FetchResults)

Spec == Init /\ [][Next]_vars

\* two targets
NextTargets == Step(Targets, {<<"a">>, <<"c">>}, {FALSE}, Results({<<>>, <<PostOf("p2")>>}))

SpecTargets == Init /\ [][NextTargets]_vars

\* start requests with appId and appSecret
NextExchange ==
    \/ Step({"T1"}, {<<"a">>, <<"a", "b">>}, {TRUE}, Results({<<>>, <<PostOf("p2")>>}))
    \/ \E tk \in InFlight, ok \in BOOLEAN : Ready /\ UNCHANGED apart /\ ExchangeReturn(tk, ok)

SpecExchange == Init /\ [][NextExchange]_vars

\* one account, one new post, and every way a Graph call can end
NextRetry ==
    \/ \E meta \in Metas : Ready /\ UNCHANGED apart /\ StartBot("T1", <<"a">>, meta, FALSE)
    \/ \E tk \in InFlight : Ready /\ UNCHANGED apart /\ FetchReturn(tk, <<"data", <<PostOf("p2")>> >>)
    \/ \E tk \in InFlight, resp \in HttpResponses : Ready /\ UNCHANGED apart /\ CallReturn(tk, resp)
    \/ \E tk \in InFlight : \E ms \in Elapsed(Backoff(tk.attempt)) : Ready /\ UNCHANGED apart /\ BackoffReturn(tk, ms)
    \/ \E tk \in InFlight : Ready /\ UNCHANGED apart /\ DelayReturn(tk)
    \/ Settle
SpecRetry == Init /\ [][NextRetry]_vars

\* two accounts, two new posts in every answer of the content source, Graph
\* calls that succeed or are answered with an error, timers that resolve on time
NextDispatch ==
    \/ \E meta \in Metas : Ready /\ UNCHANGED apart /\ StartBot("T1", <<"a", "b">>, meta, FALSE)
    \/ \E tk \in InFlight : Ready /\ UNCHANGED apart /\ FetchReturn(tk, <<"data", <<PostOf("p3"), PostOf("p2")>> >>)
    \/ \E tk \in InFlight, resp \in {OkResponse, Response(HttpBadRequest, "{error}")} :
          Ready /\ UNCHANGED apart /\ CallReturn(tk, resp)
    \/ \E tk \in InFlight : Ready /\ UNCHANGED apart /\ BackoffReturn(tk, Backoff(tk.attempt))
    \/ \E tk \in InFlight : Ready /\ UNCHANGED apart /\ DelayReturn(tk)
    \/ \E h \in TimerIds : Ready /\ UNCHANGED apart /\ TimerFire(h)
    \/ Settle
SpecDispatch == Init /\ [][NextDispatch]_vars

----------------------------------------------------------------------------
(* POST /api/react and its in-memory limits (src/unnamed/part_005) *)

MaxSlots == 11      \* instants one cooldown apart at which a request can arrive
MaxReacts == 2      \* /api/react handlers waiting for their fetch at once

COOLDOWN_MINUTES == 15
DAILY_LIMIT == 10

\* COOLDOWN_MINUTES*60*1000 and 24*60*60*1000
CooldownMs == COOLDOWN_MINUTES * 60 * 1000
DayMs == 24 * 60 * 60 * 1000

\* the values of Date.now() at which requests arrive, counted from an origin one
\* cooldown before the first of them: instants one cooldown apart, one second
\* after the first of these, one day after it, and one day and one second
Slot(k) == k * CooldownMs
Instants ==
    {Slot(k) : k \in 1..MaxSlots}
        \cup {Slot(1) + 1000, Slot(1) + DayMs, Slot(1) + DayMs + 1000}

\* req.body: complete, or without its token
ReactToken == "EAAB"
ReactBodies ==
    { [token |-> ReactToken, postId |-> "1_2", reaction |-> "LIKE"],
      [token |-> "", postId |-> "1_2", reaction |-> "LIKE"] }

\* res.status(400).json(...) and res.json(...)
MissingFields ==
    [status |-> HttpBadRequest, success |-> FALSE,
     error |-> "Missing token, postId, or reaction"]
Rejected(error) == [status |-> HttpOk, success |-> FALSE, error |-> error]
ServerError == [status |-> HttpOk, success |-> FALSE, error |-> "Server error",
                details |-> "err.message"]
Succeeded(data, st) ==
    [status |-> HttpOk, success |-> TRUE, data |-> data,
     used |-> st.used, remaining |-> DAILY_LIMIT - st.used]

\* { used: 0, lastUsed: 0, resetTime: now + 24*60*60*1000 }
NewStatus(at) == [used |-> 0, lastUsed |-> 0, resetTime |-> at + DayMs]

\* the window reset at its last instant already
ResetWindow_AtEnd(st, at) ==
    IF at >= st.resetTime THEN [st EXCEPT !.used = 0, !.resetTime = at + DayMs] ELSE st

\* if (now > status.resetTime) { status.used=0; status.resetTime=now+24*60*60*1000; }
ResetWindow(st, at) ==
    IF at > st.resetTime THEN [st EXCEPT !.used = 0, !.resetTime = at + DayMs] ELSE st

\* the cooldown never active
InCooldown_Never(st, at) == FALSE

\* now - status.lastUsed < COOLDOWN_MINUTES*60*1000
InCooldown(st, at) == at - st.lastUsed < CooldownMs

\* the daily limit one use late
OverLimit_Late(st) == st.used > DAILY_LIMIT

\* status.used>=DAILY_LIMIT
OverLimit(st) == st.used >= DAILY_LIMIT

\* resp.ok
Ok(resp) == resp.status \in 200..299

\* the status of the response not looked at
GraphError_NoStatus(resp, data) == Truthy(data.error)

\* !resp.ok || data.error
GraphError(resp, data) == ~Ok(resp) \/ Truthy(data.error)

\* the successful values of now a request that is waiting, or one that arrives
\* later, can be within the cooldown of
Near(done, at, waiting) ==
    {d \in done : \/ at - d < CooldownMs
                  \/ \E rq \in waiting : rq.now - d < CooldownMs /\ d - rq.now < CooldownMs}

\* a request arrives at instant at: the code up to the fetch
React(body, at) ==
    /\ at > clock
    /\ clock' = at
    /\ IF ~Truthy(body.token) \/ ~Truthy(body.postId) \/ ~Truthy(body.reaction)
       THEN /\ reactResponse' = <<MissingFields>>
            /\ UNCHANGED <<userStatus, reacts>>
       ELSE LET created == IF body.token \in DOMAIN userStatus
                           THEN userStatus
                           ELSE (body.token :> NewStatus(at)) @@ userStatus
                st == ResetWindow(created[body.token], at)
            IN  /\ userStatus' = [created EXCEPT ![body.token] = st]
                /\ IF InCooldown(st, at)
                   THEN /\ reactResponse' = <<Rejected("Cooldown active")>>
                        /\ UNCHANGED reacts
                   ELSE IF OverLimit(st)
                   THEN /\ reactResponse' = <<Rejected("Daily limit reached")>>
                        /\ UNCHANGED reacts
                   ELSE /\ Cardinality(reacts) < MaxReacts
                        /\ reacts' = reacts \cup {[token |-> body.token, now |-> at]}
                        /\ UNCHANGED reactResponse
    /\ succeeded' = Near(succeeded, at, reacts')
    /\ UNCHANGED <<tokenAdmin, recent, pollFailed>>
    /\ UNCHANGED <<now, storedTokens, activeBots, bots, nextBot, timers,
                   stateFile, actionLog, tasks, lastEvent, began, issued, stopped>>

\* the fetch of the waiting handler rq ends with resp: the code after the await
ReactReturn(rq, resp) ==
    /\ rq \in reacts
    /\ reacts' = reacts \ {rq}
    /\ IF resp.thrown \/ ~Parses(resp.body)
       THEN \* fetch or resp.json() rejects
            /\ reactResponse' = <<ServerError>>
            /\ UNCHANGED <<userStatus, succeeded>>
       ELSE LET data == JsonTable[resp.body]
            IN  IF data.kind = "null"
                THEN \* data.error of null throws
                     /\ reactResponse' = <<ServerError>>
                     /\ UNCHANGED <<userStatus, succeeded>>
                ELSE IF GraphError(resp, data)
                THEN /\ reactResponse' =
                            <<Rejected(IF Truthy(data.error) THEN "data.error.message"
                                       ELSE "Graph API error")>>
                     /\ UNCHANGED <<userStatus, succeeded>>
                ELSE LET st == [userStatus[rq.token] EXCEPT !.used = @ + 1,
                                                            !.lastUsed = rq.now]
                     IN  /\ userStatus' = [userStatus EXCEPT ![rq.token] = st]
                         /\ reactResponse' = <<Succeeded(data, st)>>
                         /\ succeeded' = Near(succeeded \cup {rq.now}, clock, reacts)
    /\ UNCHANGED clock
    /\ UNCHANGED <<tokenAdmin, recent, pollFailed>>
    /\ UNCHANGED <<now, storedTokens, activeBots, bots, nextBot, timers,
                   stateFile, actionLog, tasks, lastEvent, began, issued, stopped>>

\* requests to /api/react for one token, and every way their fetch can end
InitLimiter == Init /\ stateFile = <<>>
NextLimiter ==
    \/ \E body \in ReactBodies, at \in Instants : React(body, at)
    \/ \E rq \in reacts, resp \in HttpResponses : ReactReturn(rq, resp)
SpecLimiter == InitLimiter /\ [][NextLimiter]_vars

\* one account, and a content source that returns posts with and without a
\* usable created_time
UndatedBatches ==
    { <<PostOf("pN")>>, <<PostOf("pU"), PostOf("p1")>>, <<PostOf("p2")>> }
NextUndated ==
    \/ \E meta \in Metas : Ready /\ UNCHANGED apart /\ StartBot("T1", <<"a">>, meta, FALSE)
    \/ \E tk \in InFlight, r \in Results(UndatedBatches) : Ready /\ UNCHANGED apart /\ FetchReturn(tk, r)
    \/ \E tk \in InFlight : Ready /\ UNCHANGED apart /\ ActionReturn(tk)
    \/ \E tk \in InFlight : Ready /\ UNCHANGED apart /\ DelayReturn(tk)
    \/ \E h \in TimerIds : Ready /\ UNCHANGED apart /\ TimerFire(h)
    \/ Settle
SpecUndated == Init /\ [][NextUndated]_vars

\* two targets with one account each, a content source that fails or returns
\* one new post, Graph calls that succeed or fail at the network, and a log
\* file that can or cannot be written
NextIsolation ==
    \/ \E t \in Targets, meta \in Metas : Ready /\ UNCHANGED apart /\ StartBot(t, <<"a">>, meta, FALSE)
    \/ \E tk \in InFlight, r \in Results({<<PostOf("p2")>>}) : Ready /\ UNCHANGED apart /\ FetchReturn(tk, r)
    \/ \E tk \in InFlight, resp \in {OkResponse, NetworkError} : Ready /\ UNCHANGED apart /\ CallReturn(tk, resp)
    \/ \E tk \in InFlight : Ready /\ UNCHANGED apart /\ BackoffReturn(tk, Backoff(tk.attempt))
    \/ \E tk \in InFlight : Ready /\ UNCHANGED apart /\ DelayReturn(tk)
    \/ \E tk \in InFlight : Ready /\ UNCHANGED apart /\ AppendThrows(tk, OkResponse)
    \/ \E h \in TimerIds : Ready /\ UNCHANGED apart /\ TimerFire(h)
    \/ Settle
SpecIsolation == Init /\ [][NextIsolation]_vars

\* one target and one account; the event loop runs what is ready: timers
\* fire, and every external call returns in the end, but for the one call that
\* may hang for ever, graphGetPosts of the immediate poll of the start handler
\* (fetchJson sets no timeout)
MayHang(tk) == tk.kind = "start" /\ tk.pc = "fetch"
Returns ==
    \E tk \in InFlight :
        /\ ~MayHang(tk)
        /\ Ready /\ UNCHANGED apart
        /\ \/ \E r \in Results({<<PostOf("p2")>>}) : FetchReturn(tk, r)
           \/ ActionReturn(tk)
           \/ DelayReturn(tk)
Fires == \E h \in TimerIds : Ready /\ UNCHANGED apart /\ TimerFire(h)
NextHang ==
    \/ \E meta \in Metas : Ready /\ UNCHANGED apart /\ StartBot("T1", <<"a">>, meta, FALSE)
    \/ \E tk \in InFlight, r \in Results({<<PostOf("p2")>>}) : Ready /\ UNCHANGED apart /\ FetchReturn(tk, r)
    \/ \E tk \in InFlight : Ready /\ UNCHANGED apart /\ ActionReturn(tk)
    \/ \E tk \in InFlight : Ready /\ UNCHANGED apart /\ DelayReturn(tk)
    \/ Fires
    \/ Settle
SpecHang ==
    Init /\ [][NextHang]_vars /\ WF_vars(Settle) /\ SF_vars(Fires) /\ SF_vars(Returns)

\* one Watch with two accounts and a content source that returns two new
\* posts; every external call returns in the end, and every timer that is set
\* resolves or fires
FetchReturns ==
    \E tk \in InFlight, r \in Results({<<PostOf("p3"), PostOf("p2")>>}) :
        Ready /\ UNCHANGED apart /\ FetchReturn(tk, r)
CallReturns ==
    \E tk \in InFlight : Ready /\ UNCHANGED apart /\ ActionReturn(tk)
DelayReturns ==
    \E tk \in InFlight : Ready /\ UNCHANGED apart /\ DelayReturn(tk)
NextLive ==
    \/ \E meta \in Metas : Ready /\ UNCHANGED apart /\ StartBot("T1", <<"a", "b">>, meta, FALSE)
    \/ FetchReturns
    \/ CallReturns
    \/ DelayReturns
    \/ Fires
    \/ Settle
SpecLive ==
    /\ Init /\ [][NextLive]_vars
    /\ WF_vars(Settle) /\ SF_vars(Fires)
    /\ SF_vars(FetchReturns) /\ SF_vars(CallReturns) /\ SF_vars(DelayReturns)

\* the bodies of the content source that hold a data array, and the array
DataTable ==
    [body \in {"{data:[]}", "{data:[p2]}"} |->
        IF body = "{data:[]}" THEN <<>> ELSE <<PostOf("p2")>>]

\* the ways the request for the posts can end: a body with a data array, with
\* status 200 or not, a failed transport, an error object, null, an empty
\* object, an error page
PostsResponses ==
    { Response(HttpOk, "{data:[]}"), Response(HttpOk, "{data:[p2]}"),
      Response(HttpError, "{data:[p2]}"),
      NetworkError,
      Response(HttpBadRequest, "{error}"),
      Response(HttpOk, "null"),
      Response(HttpOk, "{}"),
      Response(HttpError, "<html>") }

\* graphGetPosts(targetId, listToken): what fetchJson returns, with its data
\* property: <<>> when the object has none, else <<the array>>
graphGetPosts(url, resp) ==
    [json |-> fetchJson(url, resp),
     data |-> IF ~resp.thrown /\ resp.body \in DOMAIN DataTable
              THEN <<DataTable[resp.body]>> ELSE <<>>]

\* the posts of the answer before used when the answer has no data array
ItemList_Stale(postsResp) ==
    IF postsResp.data = <<>> THEN <<"data", <<PostOf("p2")>> >>
    ELSE <<"data", postsResp.data[1]>>

\* if (!postsResp || !Array.isArray(postsResp.data)) return
ItemList(postsResp) ==
    IF postsResp.json.kind = "null" \/ postsResp.data = <<>> THEN NoData
    ELSE <<"data", postsResp.data[1]>>

\* the url of graphGetPosts: made with the token of the first account
PostsUrl(tk) == GraphUrl(bots[tk.bot].accounts[1].token)

\* graphGetPosts resolves, its fetch having ended as resp
PostsReturn(tk, resp) ==
    LET r == ItemList(graphGetPosts(PostsUrl(tk), resp))
    IN  /\ tk.pc = "fetch"
        /\ pollFailed' = IF r = NoData THEN pollFailed \cup {tk.bot} ELSE pollFailed
        /\ FetchReturn(tk, r)

\* one Watch with one account, and every way the request for the posts ends
NextFetch ==
    \/ \E meta \in Metas : Ready /\ UNCHANGED apart /\ StartBot("T1", <<"a">>, meta, FALSE)
    \/ \E tk \in InFlight, resp \in PostsResponses :
          Ready /\ UNCHANGED <<limiter, tokenAdmin, recent>> /\ PostsReturn(tk, resp)
    \/ \E tk \in InFlight : Ready /\ UNCHANGED apart /\ ActionReturn(tk)
    \/ \E tk \in InFlight : Ready /\ UNCHANGED apart /\ DelayReturn(tk)
    \/ Fires
    \/ Settle
SpecFetch == Init /\ [][NextFetch]_vars

\* the Watch of SpecLive, and stop requests for it
NextStop ==
    \/ NextLive
    \/ Ready /\ UNCHANGED apart /\ StopBot("T1")
SpecStop ==
    /\ Init /\ [][NextStop]_vars
    /\ WF_vars(Settle) /\ SF_vars(Fires)
    /\ SF_vars(FetchReturns) /\ SF_vars(CallReturns) /\ SF_vars(DelayReturns)

\* start requests whose tokenIds name a stored token once or twice
RepeatedIds == { <<"a", "b">>, <<"a", "a">> }
NextRepeat ==
    \/ \E l \in RepeatedIds, meta \in Metas : Ready /\ UNCHANGED apart /\ StartBot("T1", l, meta, FALSE)
    \/ \E tk \in InFlight, r \in Results({<<PostOf("p2")>>}) : Ready /\ UNCHANGED apart /\ FetchReturn(tk, r)
    \/ \E tk \in InFlight : Ready /\ UNCHANGED apart /\ ActionReturn(tk)
    \/ \E tk \in InFlight : Ready /\ UNCHANGED apart /\ DelayReturn(tk)
    \/ Fires
    \/ Settle
SpecRepeat == Init /\ [][NextRepeat]_vars

----------------------------------------------------------------------------
(* Token management: POST /api/add-token, GET /api/tokens,                 *)
(* DELETE /api/tokens/:id                                                   *)

MaxAdds == 2        \* tokens added in one run

\* crypto.randomBytes(6).toString('hex') and crypto.randomBytes(12) of the
\* k-th token added: values that were not drawn before
RandomIds == << "0a1b2c3d4e5f", "a0b1c2d3e4f5", "f5e4d3c2b1a0" >>
RandomIvs == << "iv4", "iv5", "iv6" >>

\* req.body of the add requests: no token, a token of 5 characters, tokens of
\* 10 and more characters, one of them with an unpaired surrogate; with a
\* name or without
AddBodies ==
    [token : {None, "EAAB5", "EAAB-token-of-d", LoneSurrogate}, name : {None, "mine"}]

\* the ids of the remove requests: stored at the start, never stored, added
RemoveIds == {"a", "c", "d", RandomIds[1]}

\* storedTokens.map(t => ({ id: t.id, name: t.name, createdAt: t.createdAt }))
\* with the ciphertext copied too
list_WithEnc(store) ==
    [k \in DOMAIN store |->
        [id |-> store[k].id, name |-> store[k].name, createdAt |-> store[k].createdAt,
         tokenEnc |-> store[k].tokenEnc]]

\* storedTokens.map(t => ({ id: t.id, name: t.name, createdAt: t.createdAt }))
list(store) ==
    [k \in DOMAIN store |->
        [id |-> store[k].id, name |-> store[k].name, createdAt |-> store[k].createdAt]]

\* storedTokens.findIndex(t => t.id === id), counted from 1; 0 for -1
findIndex(store, id) ==
    IF HasToken(store, id)
    THEN CHOOSE k \in 1..Len(store) :
            store[k].id = id /\ \A j \in 1..(k - 1) : store[j].id # id
    ELSE 0

\* splice(idx) without its count: the entry and every entry after it go
splice_ToEnd(store, idx) == SubSeq(store, 1, idx - 1)

\* storedTokens.splice(idx,1)
splice(store, idx) == SubSeq(store, 1, idx - 1) \o SubSeq(store, idx + 1, Len(store))

\* what the handlers leave alone
TokenFrame ==
    /\ UNCHANGED <<limiter, recent, pollFailed>>
    /\ UNCHANGED <<now, activeBots, bots, nextBot, timers, stateFile, actionLog,
                   tasks, lastEvent, began, issued, stopped>>

\* POST /api/add-token
AddToken(body) ==
    /\ IF ~Truthy(body.token) \/ length(body.token) < 10
       THEN /\ tokenResponse' = <<[code |-> HttpBadRequest, success |-> FALSE,
                                   error |-> "token required"]>>
            /\ UNCHANGED <<storedTokens, added>>
       ELSE LET id == RandomIds[added + 1]
                entry == [id |-> id,
                          name |-> IF Truthy(body.name) THEN body.name ELSE "acc-" \o id,
                          tokenEnc |-> encrypt(body.token, RandomIvs[added + 1]),
                          createdAt |-> toISOString(now)]
            IN  /\ added < MaxAdds
                /\ added' = added + 1
                /\ storedTokens' = Append(storedTokens, entry)
                /\ tokenResponse' = <<[code |-> HttpOk, success |-> TRUE, id |-> id,
                                       name |-> entry.name]>>
    /\ UNCHANGED removed
    /\ TokenFrame

\* GET /api/tokens
ListTokens ==
    /\ tokenResponse' = <<[code |-> HttpOk, success |-> TRUE, tokens |-> list(storedTokens)]>>
    /\ UNCHANGED <<storedTokens, added, removed>>
    /\ TokenFrame

\* the delete also taking the account out of the bots that resolved it
RemoveToken_Purge(id) ==
    LET idx == findIndex(storedTokens, id)
        Keeps(acc) == acc.id # id
    IN  /\ idx # 0
        /\ storedTokens' = splice(storedTokens, idx)
        /\ removed' = removed \cup {id}
        /\ tokenResponse' = <<[code |-> HttpOk, success |-> TRUE]>>
        /\ bots' = [b \in BotIds |->
                      IF Has(bots[b], "accounts")
                      THEN [bots[b] EXCEPT !.accounts = SelectSeq(@, Keeps)]
                      ELSE bots[b]]
        /\ UNCHANGED <<added, limiter, recent, pollFailed>>
        /\ UNCHANGED <<now, activeBots, nextBot, timers, stateFile, actionLog,
                       tasks, lastEvent, began, issued, stopped>>

\* DELETE /api/tokens/:id
RemoveToken(id) ==
    LET idx == findIndex(storedTokens, id)
    IN  /\ IF idx = 0
           THEN /\ tokenResponse' = <<[code |-> HttpNotFound, success |-> FALSE,
                                       error |-> "not found"]>>
                /\ UNCHANGED <<storedTokens, removed>>
           ELSE /\ storedTokens' = splice(storedTokens, idx)
                /\ removed' = removed \cup {id}
                /\ tokenResponse' = <<[code |-> HttpOk, success |-> TRUE]>>
        /\ UNCHANGED added
        /\ TokenFrame

\* the token management requests, in any order
NextTokens ==
    \/ \E body \in AddBodies : AddToken(body)
    \/ ListTokens
    \/ \E id \in RemoveIds : RemoveToken(id)
InitTokens == Init /\ stateFile = <<>>
SpecTokens == InitTokens /\ [][NextTokens]_vars

\* the answer of the content source with new posts in it
TickBatch == <<PostOf("p3"), PostOf("p2")>>

\* polls that find nothing and polls that find TickBatch, two accounts, Graph
\* calls that succeed or are answered with an error; every await returns
BudgetFetchReturns ==
    \E tk \in InFlight, r \in Results({<<>>, TickBatch}) :
        Ready /\ UNCHANGED apart /\ FetchReturn(tk, r)
BudgetCallReturns ==
    \E tk \in InFlight, resp \in {OkResponse, Response(HttpBadRequest, "{error}")} :
        Ready /\ UNCHANGED apart /\ CallReturn(tk, resp)
BudgetBackoffReturns ==
    \E tk \in InFlight : Ready /\ UNCHANGED apart /\ BackoffReturn(tk, Backoff(tk.attempt))
NextBudget ==
    \/ \E meta \in Metas : Ready /\ UNCHANGED apart /\ StartBot("T1", <<"a">>, meta, FALSE)
    \/ BudgetFetchReturns
    \/ BudgetCallReturns
    \/ BudgetBackoffReturns
    \/ DelayReturns
    \/ Fires
    \/ Settle
SpecBudget ==
    /\ Init /\ [][NextBudget]_vars
    /\ WF_vars(Settle) /\ SF_vars(Fires)
    /\ SF_vars(BudgetFetchReturns) /\ SF_vars(BudgetCallReturns)
    /\ SF_vars(BudgetBackoffReturns) /\ SF_vars(DelayReturns)

\* a Watch at work while tokens are removed from the store
NextRemove ==
    \/ NextStop
    \/ \E id \in {"a", "b"} : Ready /\ RemoveToken(id)
SpecRemove == Init /\ [][NextRemove]_vars

----------------------------------------------------------------------------
(* The in-memory log (src/unnamed/part_006) *)

MaxPushes == 502    \* pushLog calls in one run

\* if (logs.length > 500) logs.length = 500
LOG_CAP == 500

\* the objects the callers hand to pushLog, in the order of the calls: the
\* k-th is of one of three types and carries k
LogTypes == <<"token:add", "bot:start", "action">>
LogObject(k) == [type |-> LogTypes[(k % 3) + 1], n |-> k, time |-> None]

\* logs.unshift(obj)
unshift(l, obj) == <<obj>> \o l

\* the newest entries cut off instead of the oldest
truncate_Newest(l) == IF Len(l) > LOG_CAP THEN SubSeq(l, Len(l) - LOG_CAP + 1, Len(l)) ELSE l

\* logs.length = 500 when logs.length > 500: the array keeps its first 500
truncate(l) == IF Len(l) > LOG_CAP THEN SubSeq(l, 1, LOG_CAP) ELSE l

\* pushLog(obj): obj.time is set, obj goes to the front, the array is cut
pushLog(l, obj, at) == truncate(unshift(l, [obj EXCEPT !.time = toISOString(at)]))

PushLog ==
    /\ pushed < MaxPushes
    /\ pushed' = pushed + 1
    /\ logs' = pushLog(logs, LogObject(pushed + 1), now)
    /\ UNCHANGED <<limiter, tokenAdmin, pollFailed>>
    /\ UNCHANGED <<now, storedTokens, activeBots, bots, nextBot, timers, stateFile,
                   actionLog, tasks, lastEvent, began, issued, stopped>>

InitLogs == Init /\ stateFile = <<>>
NextLogs == PushLog
SpecLogs == InitLogs /\ [][NextLogs]_vars

----------------------------------------------------------------------------
(* Properties *)

\* a Watch for t is running: the registry has an entry for t with running set
WatchRunning(t) ==
    /\ activeBots[t] # NoRef
    /\ Has(bots[activeBots[t]], "running")
    /\ bots[activeBots[t]].running = TRUE

\* the executions in flight that poll for bot object b, with their number
PollsOf(b) == {tk \in InFlight : tk.bot = b /\ tk.pc # "exchange"}
PollCount(b) == BagCardinality([tk \in PollsOf(b) |-> CopiesIn(tk, tasks)])

\* C1: for one Watch, dispatch begins at most once for each item id, over any
\* sequence of polls, overlapping ticks and repeated items included.
C1_DispatchAtMostOnce ==
    \A b \in BotIds, p \in PostIds : began[b][p] <= 1

\* C1 witness: a tick still holds an item of its batch that an overlapping tick
\* of the same Watch has dispatched in the meantime
C1_Witness ==
    \E tk \in InFlight :
        /\ tk.pc \in Operations
        /\ tk.rest # <<>>
        /\ began[tk.bot][Head(tk.rest).id] = 1
        /\ \E other \in InFlight : other # tk /\ other.bot = tk.bot /\ other.kind = "tick"

\* C2 (as claimed): no react, comment or share call is issued for an item whose
\* creation time is a number less than or equal to the Watch's activatedAt,
\* the time stamp 0 included.
C2_NoCallAtOrBeforeActivation ==
    \A c \in issued :
        ~ /\ CreatedOf(PostOf(c[2])).kind = "number"
          /\ CreatedOf(PostOf(c[2])).value <= bots[c[1]].activatedAt

\* C3: a start request for a target whose Watch is running is answered "Bot
\* already running for this target", and the Watch (processedPosts, accounts,
\* activatedAt), the registry and the timers are what they were.
C3_StartWhileRunningRejected ==
    [][\A t \in Targets, l \in TokenIdLists, meta \in Metas, e \in BOOLEAN :
          (Ready /\ WatchRunning(t) /\ StartBot(t, l, meta, e))
              => /\ lastEvent' = Event("start", t, HttpOk, "Bot already running for this target")
                 /\ UNCHANGED <<activeBots, bots, timers, tasks, stateFile, nextBot>>]_vars

\* C3 witness: the rejection has been sent for a Watch that has processed an
\* item and has its recurring timer
C3_Witness ==
    /\ lastEvent.op = "start"
    /\ lastEvent.kind = "Bot already running for this target"
    /\ WatchRunning(lastEvent.target)
    /\ bots[activeBots[lastEvent.target]].processedPosts # {}
    /\ timers[activeBots[lastEvent.target]] = lastEvent.target

\* C4 (as claimed): of the start requests for one target that overlap, at most
\* one is answered with success, and at most one recurring timer exists for
\* the target.
C4_AtMostOneStartSucceeds ==
    /\ ~(lastEvent.op = "start" /\ lastEvent.kind = "Bot started" /\ lastEvent.overlap)
    /\ \A t \in Targets : Cardinality({h \in TimerIds : timers[h] = t}) <= 1

\* C5 (as claimed): once stop has been answered for a target, and until the
\* next start request for it, no poll tick runs for that target.
C5_NoTickAfterStop ==
    lastEvent.op = "tick" => ~stopped[lastEvent.target]

\* C6 (as claimed): at most one poll execution is in progress for a Watch at
\* any time.
C6_OnePollInProgress ==
    \A b \in BotIds : PollCount(b) <= 1

\* C7: a stop request for a target with no Watch is answered 200 "No active
\* bot for this target" and changes nothing: no other target's Watch, no timer,
\* no execution in flight, not the state file; and after any stop the target
\* has no Watch, so a second stop finds the state the first one left.
C7_StopAbsentIsNoOp ==
    [][lastEvent'.op = "stop" =>
          /\ activeBots'[lastEvent'.target] = NoRef
          /\ activeBots[lastEvent'.target] = NoRef =>
                /\ lastEvent' = Event("stop", lastEvent'.target, HttpOk,
                                      "No active bot for this target")
                /\ UNCHANGED <<activeBots, bots, timers, stateFile, tasks,
                               storedTokens, actionLog, nextBot>>]_vars

\* C7 witness: the answer has been sent while another target's Watch runs
\* with its timer
C7_Witness ==
    /\ lastEvent.op = "stop"
    /\ lastEvent.kind = "No active bot for this target"
    /\ \E t \in Targets \ {lastEvent.target} :
          WatchRunning(t) /\ timers[activeBots[t]] = t

\* every id of the list is unknown to the store or names only entries that
\* were encrypted under another key
NoUsableAccount(l) ==
    \A k \in DOMAIN l : \A j \in DOMAIN storedTokens :
        storedTokens[j].id = l[k] => storedTokens[j].tokenEnc.enc[2] # ENC_KEY

\* C8: a start request whose tokenIds resolve to no usable account fails and
\* creates nothing: no registry entry, no bot object, no timer, no execution,
\* no state file; for a target that is not running the answer is 400 "no valid
\* stored tokens found".
C8_NoAccountsNoWatch ==
    [][\A t \in Targets, l \in TokenIdLists, meta \in Metas, e \in BOOLEAN :
          (Ready /\ NoUsableAccount(l) /\ StartBot(t, l, meta, e))
              => /\ lastEvent'.op = "start"
                 /\ lastEvent'.kind # "Bot started"
                 /\ ~WatchRunning(t) =>
                       lastEvent' = Event("start", t, HttpBadRequest,
                                          "no valid stored tokens found")
                 /\ UNCHANGED <<activeBots, bots, timers, tasks, stateFile, nextBot>>]_vars

\* C8 witness: the failure has been answered for a target without a Watch
C8_Witness ==
    /\ lastEvent = Event("start", "T1", HttpBadRequest, "no valid stored tokens found")
    /\ activeBots["T1"] = NoRef
    /\ \A h \in TimerIds : timers[h] # "T1"

\* C9 (as claimed): every entry of the registry is a running Watch: running is
\* set, the accounts list is not empty and there is a processedPosts set; this
\* holds from the state right after restoreState on.
C9_EveryEntryIsRunning ==
    \A t \in BotKeys(activeBots) :
        /\ Has(bots[activeBots[t]], "running")
        /\ bots[activeBots[t]].running = TRUE
        /\ Has(bots[activeBots[t]], "accounts")
        /\ Len(bots[activeBots[t]].accounts) > 0
        /\ Has(bots[activeBots[t]], "processedPosts")

\* C10 (as claimed): a status request is answered 200 with one record for each
\* entry of the registry.
C10_StatusCompletes ==
    lastEvent.op = "status" =>
        /\ lastEvent.code = HttpOk
        /\ {r.targetId : r \in status.bots} = BotKeys(activeBots)

\* the executions that await a call of fn inside retry
Calling == {tk \in InFlight : tk.pc \in Operations /\ ~tk.backoff}

\* C11: while retry awaits attempt k+1 the operation has failed k times (k in
\* 0..2) and has been called k+1 times; attempt 2 starts at least 700 ms after
\* attempt 1 ended and attempt 3 at least 1400 ms after attempt 2 ended; when
\* an attempt succeeds after k failures retry returns that attempt's result,
\* the operation having been called k+1 times, and calls it no more.
C11_RetryUntilSuccess ==
    /\ [](\A tk \in Calling :
            /\ tk.fails \in 0..2
            /\ tk.calls = tk.fails + 1
            /\ tk.fails = 1 => tk.waited >= 700
            /\ tk.fails = 2 => tk.waited >= 1400)
    /\ [][\A tk \in InFlight, resp \in HttpResponses :
            (Ready /\ CallReturn(tk, resp) /\ ~IsFailure(fetchJson(UrlOf(tk), resp)))
                => \E n \in BagToSet(tasks') :
                      n.last = [op |-> tk.pc, calls |-> tk.fails + 1, fails |-> tk.fails,
                                result |-> fetchJson(UrlOf(tk), resp)]]_vars

\* C11 witness: a retry call has returned the result of its third attempt,
\* after two failures
C11_Witness ==
    \E tk \in InFlight :
        /\ tk.last.op = "react"
        /\ tk.last.fails = 2
        /\ tk.last.calls = 3
        /\ tk.last.result = fetchJson(GraphUrl("EAAB-token-of-a"), OkResponse)

\* what follows an operation in the loop over the accounts
NextStage(op) ==
    CASE op = "react" -> "comment"
      [] op = "comment" -> "share"
      [] op = "share" -> "delay"

\* the log entries of target t for post p and the account with id a
EntriesOf(t, p, a) ==
    {e \in BagToSet(actionLog[t]) : e.postId = p /\ e.accountId = a}

\* C12: an operation is never called more than 3 times by one retry call; when
\* the third attempt has failed too, retry returns the last failure as its
\* value, and the execution goes on with the next operation of the account, or
\* after share with the log entry and the delay before the next account, its
\* account index and its remaining posts being what they were.
C12_ExhaustedRetryGoesOn ==
    /\ [](\A tk \in InFlight : tk.calls <= 3 /\ tk.fails <= tk.calls)
    /\ [][\A tk \in InFlight :
            (Ready /\ tk.fails = 3 /\ BackoffReturn(tk, Backoff(tk.attempt)))
                => /\ tk.calls = 3
                   /\ IsFailure(tk.lastErr)
                   /\ \E n \in BagToSet(tasks') :
                         /\ n.pc = NextStage(tk.pc)
                         /\ n.kind = tk.kind /\ n.bot = tk.bot /\ n.post = tk.post
                         /\ n.i = tk.i /\ n.rest = tk.rest
                         /\ n.last = [op |-> tk.pc, calls |-> 3, fails |-> 3,
                                      result |-> tk.lastErr]
                   /\ tk.pc = "share" =>
                         \E e \in BagToSet(actionLog'[tk.target]) :
                             /\ e.postId = tk.post
                             /\ e.shareResult = tk.lastErr
                             /\ CopiesIn(e, actionLog'[tk.target])
                                   = CopiesIn(e, actionLog[tk.target]) + 1]_vars

\* C12 witness: the first account's react on the first post failed three
\* times, and the log has that entry, the second account's entry for the post
\* and the first account's entry for the next post
C12_Witness ==
    /\ \E e \in EntriesOf("T1", "p3", "a") : IsFailure(e.reactionResult)
    /\ EntriesOf("T1", "p3", "b") # {}
    /\ EntriesOf("T1", "p2", "a") # {}

\* the response carries an error indicator: the call did not get through, the
\* status is not a 2xx one, or the body holds an error or an error message
ErrorIndicator(resp) ==
    \/ resp.thrown
    \/ resp.status \notin 200..299
    \/ resp.body \in {"{error}", "{error_message}"}

\* C13 (as claimed): whenever a call ends with a response that carries an
\* error indicator, a status that is not a success with an empty or unparsable
\* body included, retry takes the result for a failure: it keeps it as lastErr
\* and waits for the next attempt.
C13_ErrorIndicatorIsFailure ==
    [][\A tk \in InFlight, resp \in HttpResponses :
          (Ready /\ ErrorIndicator(resp) /\ CallReturn(tk, resp))
              => \E n \in BagToSet(tasks') :
                    /\ n.backoff
                    /\ n.fails = tk.fails + 1
                    /\ n.lastErr = fetchJson(UrlOf(tk), resp)]_vars

\* the number of log entries of target t for post p and the account with id a
EntryCount(t, p, a) ==
    BagCardinality([e \in EntriesOf(t, p, a) |-> CopiesIn(e, actionLog[t])])

\* the executions that are dispatching post p for bot object b
Dispatching(b, p) == {tk \in InFlight : tk.bot = b /\ tk.post = p /\ tk.pc # "fetch"}

\* account k of bot object b is through with post p: the dispatch of p has
\* begun and is over, or it is at a later account, or at the delay after k
AccountDone(b, p, k) ==
    /\ began[b][p] >= 1
    /\ \A tk \in Dispatching(b, p) : tk.i > k \/ (tk.i = k /\ tk.pc = "delay")

ArrivesInCooldown(body, at) ==
    /\ React(body, at)
    /\ Truthy(body.token) /\ Truthy(body.postId) /\ Truthy(body.reaction)
    /\ body.token \in DOMAIN userStatus
    /\ at - userStatus[body.token].lastUsed < CooldownMs

\* C15 (amended): a request that arrives less than the cooldown after lastUsed
\* is answered 'Cooldown active' in the step of its arrival, no fetch is
\* started and no handler is left waiting, lastUsed is unchanged, and used is
\* unchanged unless now > resetTime, in which case the window is reset first
\* (used = 0, resetTime = now + 24 h).
C15_CooldownRejected ==
    [][\A body \in ReactBodies, at \in Instants :
          ArrivesInCooldown(body, at) =>
              LET st == userStatus[body.token]
              IN  /\ reactResponse' = <<Rejected("Cooldown active")>>
                  /\ reacts' = reacts
                  /\ userStatus'[body.token].lastUsed = st.lastUsed
                  /\ userStatus'[body.token].used = IF at > st.resetTime THEN 0 ELSE st.used
                  /\ userStatus'[body.token].resetTime
                        = IF at > st.resetTime THEN at + DayMs ELSE st.resetTime]_vars

\* C15 witness: a request was rejected for the cooldown one second after a
\* successful one, and its arrival reset the window
C15_Witness ==
    /\ reactResponse = <<Rejected("Cooldown active")>>
    /\ ReactToken \in DOMAIN userStatus
    /\ clock - userStatus[ReactToken].lastUsed = 1000
    /\ userStatus[ReactToken].used = 0
    /\ userStatus[ReactToken].resetTime = clock + DayMs

\* C15 (as claimed): the rejection for the cooldown changes neither used nor
\* lastUsed.
C15_CooldownRejectKeepsUsed ==
    [][\A body \in ReactBodies, at \in Instants :
          ArrivesInCooldown(body, at) =>
              /\ reactResponse' = <<Rejected("Cooldown active")>>
              /\ reacts' = reacts
              /\ userStatus'[body.token].lastUsed = userStatus[body.token].lastUsed
              /\ userStatus'[body.token].used = userStatus[body.token].used]_vars

\* the request with this body arrives in the current window of its token,
\* the cooldown over and the daily limit used up
ArrivesOverLimit(body, at) ==
    /\ React(body, at)
    /\ Truthy(body.token) /\ Truthy(body.postId) /\ Truthy(body.reaction)
    /\ body.token \in DOMAIN userStatus
    /\ at <= userStatus[body.token].resetTime
    /\ at - userStatus[body.token].lastUsed >= CooldownMs
    /\ userStatus[body.token].used >= DAILY_LIMIT

\* C16: a request that arrives in the current window with used >= DAILY_LIMIT
\* and the cooldown over is answered 'Daily limit reached' in the step of its
\* arrival, no fetch is started, and used, lastUsed and resetTime are unchanged.
C16_OverLimitRejected ==
    [][\A body \in ReactBodies, at \in Instants :
          ArrivesOverLimit(body, at) =>
              /\ reactResponse' = <<Rejected("Daily limit reached")>>
              /\ reacts' = reacts
              /\ userStatus' = userStatus]_vars

\* C16 witness: 10 requests one cooldown apart have succeeded and the 11th,
\* one cooldown after the 10th, has been rejected for the daily limit
C16_Witness ==
    /\ reactResponse = <<Rejected("Daily limit reached")>>
    /\ reacts = {}
    /\ clock = Slot(DAILY_LIMIT + 1)
    /\ ReactToken \in DOMAIN userStatus
    /\ userStatus[ReactToken] =
          [used |-> DAILY_LIMIT, lastUsed |-> Slot(DAILY_LIMIT), resetTime |-> Slot(1) + DayMs]

\* C17: any two requests for a token that both succeeded have values of now
\* at least one cooldown apart.
C17_SuccessesCooldownApart ==
    \A a \in succeeded, b \in succeeded :
        a < b => b - a >= CooldownMs

\* C18: used of every token is between 0 and DAILY_LIMIT.
C18_UsedWithinLimit ==
    \A t \in DOMAIN userStatus :
        userStatus[t].used >= 0 /\ userStatus[t].used <= DAILY_LIMIT

\* the external call failed: fetch threw, the status is not a 2xx one, or the
\* body carries an error
CallFailed(resp) ==
    \/ resp.thrown
    \/ resp.status \notin 200..299
    \/ Parses(resp.body) /\ Truthy(JsonTable[resp.body].error)

\* C19: when the fetch of a request that passed the cooldown and limit tests
\* fails (fetch throws, a status that is not 2xx, or a body with an error),
\* the response is a failure and used, lastUsed and resetTime are what they
\* were, so the tests of the next request see what they would have seen.
C19_FailedCallConsumesNothing ==
    [][\A rq \in reacts, resp \in HttpResponses :
          (ReactReturn(rq, resp) /\ CallFailed(resp)) =>
              /\ userStatus' = userStatus
              /\ reactResponse'[1].success = FALSE]_vars

\* C19 witness: the fetch of the first request failed; the request that came
\* one second after the first has passed the tests and waits for its fetch
C19_Witness ==
    /\ reactResponse = <<Rejected("Graph API error")>>
    /\ ReactToken \in DOMAIN userStatus
    /\ userStatus[ReactToken] = NewStatus(Slot(1))
    /\ reacts = {[token |-> ReactToken, now |-> Slot(1) + 1000]}

\* C20: the response to a request rejected for the cooldown carries the rest
\* of the cooldown in seconds, cooldown - (now - lastUsed).
C20_CooldownRejectHasRemaining ==
    [][\A body \in ReactBodies, at \in Instants :
          ArrivesInCooldown(body, at) =>
              /\ Has(reactResponse'[1], "remainingSeconds")
              /\ reactResponse'[1].remainingSeconds
                    = (CooldownMs - (at - userStatus[body.token].lastUsed)) \div 1000]_vars

\* the store has an entry for id that was sealed under the key of the process
\* and carries the tag of its bytes
Usable(store, id) ==
    /\ HasToken(store, id)
    /\ LET c == FindToken(store, id).tokenEnc
       IN  c.enc[2] = ENC_KEY /\ c.tag = GcmTag(ENC_KEY, c.iv, c.enc)

\* the tokenIds lists resolved: up to 3 ids, stored, stored under an earlier
\* key, never stored, and added
ResolveRequests == SeqsOf({"a", "c", "d", RandomIds[1]}, 0, 3)

\* C21: buildAccountsFromIds returns, in the order of the request, one account
\* {id, name, token} for every requested id the store has a usable entry for;
\* an id that is unknown or whose entry does not decrypt is skipped, and the
\* accounts of the other ids are returned all the same.
C21_ResolveSkipsFailures ==
    \A ids \in ResolveRequests :
        LET good == SelectSeq(ids, LAMBDA id : Usable(storedTokens, id))
        IN  buildAccountsFromIds(ids)
              = [k \in 1..Len(good) |->
                   [id |-> good[k],
                    name |-> FindToken(storedTokens, good[k]).name,
                    token |-> FindToken(storedTokens, good[k]).tokenEnc.enc[4][2]]]

\* C21 witness: of an entry that does not decrypt, an added one, an unknown id
\* and a stored one, the added and the stored one are returned, in that order
C21_Witness ==
    LET accounts == buildAccountsFromIds(<<"c", RandomIds[1], "d", "a">>)
    IN  /\ HasToken(storedTokens, "c")
        /\ Len(accounts) = 2
        /\ accounts[1].id = RandomIds[1]
        /\ accounts[1].token = "EAAB-token-of-d"
        /\ accounts[2].id = "a"

\* ciphertexts an entry could hold in place of its own: of another token, and
\* of another key
OtherSecrets == {encrypt("EAAB-another-token", "iv7"), Sealed(OTHER_KEY, "EAAB-token-of-a", "iv1")}

\* the stores that differ from store in nothing but the tokenEnc of entries
Variants(store) ==
    {[k \in DOMAIN store |-> [store[k] EXCEPT !.tokenEnc = c[k]]] :
        c \in [DOMAIN store -> OtherSecrets]}

\* C22: the list of GET /api/tokens has for every stored entry its id, name
\* and createdAt and nothing else, and it is the same for every store that
\* differs only in the secrets of its entries, whatever was added and removed.
C22_ListHidesSecrets ==
    /\ \A alt \in Variants(storedTokens) : list(alt) = list(storedTokens)
    /\ Len(list(storedTokens)) = Len(storedTokens)
    /\ \A k \in DOMAIN storedTokens :
          list(storedTokens)[k] = [id |-> storedTokens[k].id, name |-> storedTokens[k].name,
                                   createdAt |-> storedTokens[k].createdAt]
    /\ (tokenResponse # <<>> /\ Has(tokenResponse[1], "tokens")) =>
          \A k \in DOMAIN tokenResponse[1].tokens :
              DOMAIN tokenResponse[1].tokens[k] = {"id", "name", "createdAt"}

\* C22 witness: the list was sent after a token was added and one removed
C22_Witness ==
    /\ tokenResponse # <<>>
    /\ Has(tokenResponse[1], "tokens")
    /\ tokenResponse[1].tokens = list(storedTokens)
    /\ Len(storedTokens) = 3
    /\ HasToken(storedTokens, RandomIds[1])
    /\ removed = {"a"}

\* the ids of a store, in its order
IdsOf(store) == [k \in DOMAIN store |-> store[k].id]

\* C23: DELETE /api/tokens/:id for an id the store does not have is answered
\* 404 'not found' and leaves the store as it is; for a stored id it removes
\* the entry with that id and no other, the entries before and after it keep
\* their order, and from then on no entry, no list and no resolved account has
\* that id.
C23_RemoveExactlyThatEntry ==
    /\ [](\A id \in removed :
            /\ ~HasToken(storedTokens, id)
            /\ \A k \in DOMAIN list(storedTokens) : list(storedTokens)[k].id # id
            /\ buildAccountsFromIds(<<id>>) = <<>>)
    /\ [][\A id \in RemoveIds :
            RemoveToken(id) =>
                IF \A k \in DOMAIN storedTokens : storedTokens[k].id # id
                THEN /\ tokenResponse' = <<[code |-> HttpNotFound, success |-> FALSE,
                                            error |-> "not found"]>>
                     /\ storedTokens' = storedTokens
                ELSE /\ tokenResponse' = <<[code |-> HttpOk, success |-> TRUE]>>
                     /\ Len(storedTokens') = Len(storedTokens) - 1
                     /\ \E k \in DOMAIN storedTokens :
                           /\ storedTokens[k].id = id
                           /\ \A j \in 1..(k - 1) : storedTokens'[j] = storedTokens[j]
                           /\ \A j \in (k + 1)..Len(storedTokens) :
                                 storedTokens'[j - 1] = storedTokens[j]]_vars

\* C23 witness: the first entry was removed, the entries after it and an added
\* one are left in their order, and a second request for the id was answered
\* 'not found'
C23_Witness ==
    /\ removed = {"a"}
    /\ IdsOf(storedTokens) = <<"b", "c", RandomIds[1]>>
    /\ tokenResponse = <<[code |-> HttpNotFound, success |-> FALSE, error |-> "not found"]>>

\* the add request is accepted: its token is a string of 10 or more code units
Accepted(body) == Truthy(body.token) /\ length(body.token) >= 10

PlainSecrets ==
    {decrypt(storedTokens[k].tokenEnc) : k \in DOMAIN storedTokens}
        \cup UNION {{bots[b].accounts[i].token : i \in DOMAIN bots[b].accounts} :
                       b \in {x \in DOMAIN bots : Has(bots[x], "accounts")}}
        \cup {LongLivedToken}

\* the text holds the secret: it is the secret, or the message of a failed
\* request to a url made with it
Mentions(text, secret) ==
    \/ text = secret
    \/ text = FetchErrorMessage(GraphUrl(secret))

\* the strings of the three files: of the entries of tokens.json (tokenEnc is
\* ciphertext, not a string of the secret), of the records of activeBots.json
\* and of the lines of the action logs
StoredTexts ==
    UNION {{storedTokens[k].id, storedTokens[k].name} : k \in DOMAIN storedTokens}
        \cup UNION {{s.targetId, s.meta.comment} : s \in UNION {stateFile[k] : k \in DOMAIN stateFile}}
        \cup UNION {UNION {{e.targetId, e.postId, e.accountId, e.accountName}
                               \cup UNION {{res.error, res.error_description, res.error_message,
                                            res.id}
                                              : res \in {e.reactionResult, e.commentResult,
                                                         e.shareResult}}
                              : e \in BagToSet(actionLog[t])}
                       : t \in Targets}

\* C24 (as claimed): no structure written to durable storage (token store
\* file, bot-state file, per-target action log) holds a plaintext credential
\* secret.
C24_NoPlaintextInStorage ==
    \A text \in StoredTexts, secret \in PlainSecrets \ {None} : ~Mentions(text, secret)

\* C28 (as claimed): dispatch begins for a returned item only if the item
\* carries a creation time strictly greater than the Watch's activatedAt and
\* its id was not in processedPosts when examined; an item without a creation
\* time, or with an unparsable one, is not dispatched.
C28_OnlyDatedNewItems ==
    [][\A b \in BotIds, p \in Posts :
          began'[b][p.id] > began[b][p.id] =>
              /\ CreatedOf(p).kind = "number"
              /\ CreatedOf(p).value > bots[b].activatedAt
              /\ p.id \notin bots[b].processedPosts]_vars

\* a step in which the execution tk fails: the content source gives no data,
\* a Graph call fails at the network, an operation has used up its attempts,
\* or the log file cannot be written and the tick ends with an exception
FailureStep(tk) ==
    \/ FetchReturn(tk, NoData)
    \/ CallReturn(tk, NetworkError)
    \/ tk.attempt + 1 = attempts /\ BackoffReturn(tk, Backoff(tk.attempt))
    \/ AppendThrows(tk, OkResponse)

\* the step leaves what the process holds for target t as it was: the entry
\* of the registry and the bot object behind it (processedPosts, accounts,
\* running, intervalId), its setInterval handles, its executions in flight
\* and its log
Untouched(t) ==
    /\ activeBots'[t] = activeBots[t]
    /\ activeBots[t] # NoRef => bots'[activeBots[t]] = bots[activeBots[t]]
    /\ {h \in TimerIds : timers'[h] = t} = {h \in TimerIds : timers[h] = t}
    /\ \A x \in InFlight : x.target = t => CopiesIn(x, tasks') = CopiesIn(x, tasks)
    /\ actionLog'[t] = actionLog[t]

\* C26: a failure inside a poll of target A (no data from the content source,
\* a failing call, an operation out of attempts, an exception) leaves the
\* Watch entry, processedPosts, accounts and timer of every other target
\* unchanged, and the process goes on: the executions of the other targets
\* stay in flight.
C26_FailureStaysInItsTarget ==
    [][\A tk \in InFlight :
          FailureStep(tk) => \A t \in Targets \ {tk.target} : Untouched(t)]_vars

\* C26 witness: the tick of T1 ended with an exception after p2 was marked
\* (no entry in its log, no execution left), while the Watch of T2 is running
\* with its timer set and an execution in flight
C26_Witness ==
    /\ activeBots["T1"] # NoRef /\ IsRunning(bots[activeBots["T1"]])
    /\ activeBots["T2"] # NoRef /\ IsRunning(bots[activeBots["T2"]])
    /\ "p2" \in bots[activeBots["T1"]].processedPosts
    /\ actionLog["T1"] = EmptyBag
    /\ ~\E tk \in InFlight : tk.target = "T1"
    /\ bots[activeBots["T2"]].intervalId # NoRef
    /\ timers[bots[activeBots["T2"]].intervalId] = "T2"
    /\ \E tk \in InFlight : tk.target = "T2" /\ tk.pc \in Operations

\* C29: the id of an item is in processedPosts before the first call for the
\* item is issued, and stays there while calls for it are made; so when a tick
\* ends with an exception after dispatch of the item began, no later poll of
\* the same Watch dispatches the item again.
C29_MarkedBeforeFirstCall ==
    /\ \A c \in issued : c[2] \in bots[c[1]].processedPosts
    /\ \A tk \in InFlight : tk.post # None => tk.post \in bots[tk.bot].processedPosts
    /\ \A b \in BotIds, p \in PostIds : began[b][p] <= 1

\* C29 witness: the immediate poll of T1 ended with an exception after the
\* react call for p2 was issued (no entry in the log, the timer set by the
\* start handler), and a later tick of the same Watch is under way
C29_Witness ==
    /\ activeBots["T1"] # NoRef /\ IsRunning(bots[activeBots["T1"]])
    /\ <<activeBots["T1"], "p2", 1, "react">> \in issued
    /\ actionLog["T1"] = EmptyBag
    /\ bots[activeBots["T1"]].intervalId # NoRef
    /\ \A tk \in InFlight : tk.target = "T1" => tk.kind = "tick" /\ tk.pc = "fetch"
    /\ \E tk \in InFlight : tk.target = "T1"

\* C27 (as claimed): a single external call that never returns cannot stall
\* the polling of a target: once the start handler has created the Watch of a
\* target and no stop follows, a poll tick of that target runs in the end, even
\* if the call of the immediate poll hangs for ever.
C27_TicksEventuallyRun ==
    \A t \in Targets :
        (\E tk \in InFlight : tk.kind = "start" /\ tk.target = t /\ tk.pc = "fetch")
            ~> (stopped[t] \/ lastEvent = Event("tick", t, 0, "fetch"))

\* post p is an eligible item of the answer an execution of bot object b is
\* working through: the item it is dispatching, or a later item of the answer
\* that is neither too old nor in processedPosts
Pending(b, p) ==
    \E tk \in InFlight :
        /\ tk.bot = b
        /\ tk.pc # "fetch"
        /\ \/ tk.post = p
           \/ \E k \in DOMAIN tk.rest :
                 /\ tk.rest[k].id = p
                 /\ ~TooOld(bots[b], tk.rest[k])
                 /\ ~Seen(bots[b], tk.rest[k])

\* react, comment and share have been called for post p with every account of
\* bot object b, and the log of target t has an entry with the results for
\* every account
Served(t, b, p) ==
    /\ Has(bots[b], "accounts")
    /\ \A i \in DOMAIN bots[b].accounts :
          /\ \A op \in Operations : <<b, p, i, op>> \in issued
          /\ EntryCount(t, p, bots[b].accounts[i].id) >= 1

\* C30: when every external call returns in the end, every eligible item a
\* poll of a running Watch has received has, in the end, had react, comment
\* and share called for every account of the Watch, and the results are in
\* the action log.
C30_EligibleItemsAreServed ==
    \A b \in BotIds, p \in PostIds : Pending(b, p) ~> Served("T1", b, p)

\* C30 witness: both posts of an answer have been served for both accounts of
\* the Watch, the older one after the newer one
C30_Witness ==
    /\ activeBots["T1"] # NoRef
    /\ Served("T1", activeBots["T1"], "p3")
    /\ Served("T1", activeBots["T1"], "p2")
    /\ Len(bots[activeBots["T1"]].accounts) = 2

\* C31 (as claimed): the start handler creates the Watch entry, runs one
\* complete poll, and only then sets the recurring timer and answers; no timer
\* tick of a Watch starts before the immediate poll of that Watch has ended.
C31_NoTickBeforeInitialPollEnds ==
    \A st \in InFlight :
        (st.kind = "start" /\ st.pc # "exchange") =>
            /\ bots[st.bot].intervalId = NoRef
            /\ ~\E tk \in InFlight : tk.kind = "tick" /\ tk.bot = st.bot

\* the place of operation op of account i in the order of the calls for one
\* item: react, comment, share of account 1, then of account 2, ...
Rank(i, op) ==
    3 * (i - 1) + (CASE op = "react" -> 1 [] op = "comment" -> 2 [] op = "share" -> 3
                     [] OTHER -> 3)

\* the calls made so far for the item an execution is dispatching
CallsFor(tk) == {c \in issued : c[1] = tk.bot /\ c[2] = tk.post}

\* C32: within one poll an execution awaits one external call at a time; for
\* each item the calls are made in the order of the accounts list, and for an
\* account react, retries included, has returned before comment is called and
\* comment before share: the calls made for the item are exactly those up to
\* the operation the execution is at, and no call of a later operation or a
\* later account has been made.
C32_OneCallAtATime ==
    \A tk \in InFlight :
        tk.pc \in Operations \cup {"delay"} =>
            CallsFor(tk) = {<<tk.bot, tk.post, i, op>> :
                               <<i, op>> \in {x \in (1..tk.i) \X Operations :
                                                Rank(x[1], x[2]) <= Rank(tk.i, tk.pc)}}

\* C32 witness: the share of the second account is in flight after a retry,
\* the first account having its entry in the log
C32_Witness ==
    \E tk \in InFlight :
        /\ tk.pc = "share" /\ tk.i = 2 /\ tk.fails > 0
        /\ EntryCount(tk.target, tk.post, bots[tk.bot].accounts[1].id) = 1
        /\ EntryCount(tk.target, tk.post, bots[tk.bot].accounts[2].id) = 0

\* the answers to the request for the posts that are failures: the transport
\* failed, the body is an error object, or there is no list of posts in it
FailedFetches ==
    { NetworkError, Response(HttpBadRequest, "{error}"), Response(HttpOk, "null"),
      Response(HttpOk, "{}"), Response(HttpError, "<html>") }

TicksOf(b) == {tk \in InFlight : tk.kind = "tick" /\ tk.bot = b}

\* post p is an eligible item a timer tick of the stopped Watch b still has to
\* serve, or is serving
PendingAfterStop(b, p) ==
    /\ Has(bots[b], "running") /\ ~bots[b].running
    /\ \E tk \in TicksOf(b) :
          /\ tk.pc # "fetch"
          /\ \/ tk.post = p
             \/ \E k \in DOMAIN tk.rest :
                   /\ tk.rest[k].id = p
                   /\ ~TooOld(bots[b], tk.rest[k])
                   /\ ~Seen(bots[b], tk.rest[k])

\* C34: a timer tick that is in flight when its Watch is stopped runs to its
\* end: every eligible item of the answer it is working through is served
\* with every account of the stopped Watch and has its entries in the log;
\* no step of such a tick sets a timer; and when the delay after an account is
\* over the tick calls react for the next account, stopped or not.
C34_TickRunsOutAfterStop ==
    /\ \A b \in BotIds, p \in {"p3", "p2"} : PendingAfterStop(b, p) ~> Served("T1", b, p)
    /\ [][\A b \in BotIds :
             (Has(bots[b], "running") /\ ~bots[b].running /\ TicksOf(b) # {}
                 /\ lastEvent'.op \notin {"start", "stop"} /\ tasks' # tasks)
               => \A h \in TimerIds : timers[h] = None => timers'[h] = None]_vars
    /\ [][\A b \in BotIds : \A tk \in TicksOf(b) :
             (Has(bots[b], "running") /\ ~bots[b].running /\ tk.pc = "delay"
                 /\ tk.i < Len(bots[b].accounts)
                 /\ CopiesIn(tk, tasks') < CopiesIn(tk, tasks))
               => <<b, tk.post, tk.i + 1, "react">> \in issued']_vars

\* C34 witness: the Watch was stopped while a timer tick was dispatching p3;
\* the tick has served p3 and is at the second account of p2, and the timer of
\* the Watch is cleared
C34_Witness ==
    \E b \in BotIds :
        /\ Has(bots[b], "running") /\ ~bots[b].running
        /\ activeBots["T1"] = NoRef
        /\ timers[b] = None
        /\ Served("T1", b, "p3")
        /\ \E tk \in TicksOf(b) : tk.post = "p2" /\ tk.i = 2 /\ tk.pc = "share"

\* C35: a request to /api/react with token, postId and reaction, before the
\* cooldown and limit checks: a token without a status gets one with used 0
\* and resetTime now + 24 h; for a token with a status, used becomes 0 and
\* resetTime now + 24 h when now > resetTime, and the status is left as it is
\* otherwise.  resetTime is always 24 h after the instant of a request that
\* has arrived, the last reset.
C35_WindowReset ==
    /\ [](\A tok \in DOMAIN userStatus :
             /\ userStatus[tok].resetTime - DayMs \in Instants
             /\ userStatus[tok].resetTime - DayMs <= clock)
    /\ [][\A body \in ReactBodies, at \in Instants :
             (React(body, at) /\ Truthy(body.token) /\ Truthy(body.postId)
                 /\ Truthy(body.reaction))
               => LET new == userStatus'[body.token]
                  IN  IF body.token \notin DOMAIN userStatus
                      THEN new = [used |-> 0, lastUsed |-> 0, resetTime |-> at + DayMs]
                      ELSE LET st == userStatus[body.token]
                           IN  IF at > st.resetTime
                               THEN new = [used |-> 0, lastUsed |-> st.lastUsed,
                                           resetTime |-> at + DayMs]
                               ELSE new = st]_vars

\* C35 witness: the request that arrived one second after the end of the
\* window has reset it and waits for its fetch, the token having been used in
\* the window before
C35_Witness ==
    /\ ReactToken \in DOMAIN userStatus
    /\ clock = Slot(1) + DayMs + 1000
    /\ userStatus[ReactToken] = [used |-> 0, lastUsed |-> Slot(1), resetTime |-> clock + DayMs]
    /\ [token |-> ReactToken, now |-> clock] \in reacts

\* the smaller of two numbers
Min(a, b) == IF a < b THEN a ELSE b

\* C36: after n pushLog calls the in-memory log holds exactly the last
\* min(n, 500) objects pushed, the newest first; it is never longer than 500;
\* a call moves every entry one place back unchanged and drops only the entry
\* at place 500, the oldest.
C36_LogKeepsNewest ==
    /\ [](/\ Len(logs) = Min(pushed, LOG_CAP)
          /\ \A i \in 1..Len(logs) :
                logs[i] = [LogObject(pushed - i + 1) EXCEPT !.time = logs[i].time]
          /\ \A i \in 1..Len(logs) : logs[i].time # None)
    /\ [][/\ Len(logs') = Min(Len(logs) + 1, LOG_CAP)
          /\ \A i \in 1..Len(logs) : i < LOG_CAP => logs'[i + 1] = logs[i]]_vars

\* C36 witness: 502 objects were pushed; the log holds 500, from the 502nd at
\* the front to the 3rd at the end
C36_Witness ==
    /\ pushed = LOG_CAP + 2
    /\ Len(logs) = LOG_CAP
    /\ logs[1].n = LOG_CAP + 2
    /\ logs[LOG_CAP].n = 3

\* C37 (as claimed): in every state a target has at most one live setInterval
\* timer, a live timer exists only while the target has an entry in the
\* registry, and its handle is the intervalId of that entry; also when a stop
\* or a restart arrives during the immediate poll of a start.
C37_OneTimerOwnedByEntry ==
    \A t \in Targets :
        /\ Cardinality({h \in TimerIds : timers[h] = t}) <= 1
        /\ \A h \in TimerIds :
              timers[h] = t =>
                  /\ activeBots[t] # NoRef
                  /\ Has(bots[activeBots[t]], "intervalId")
                  /\ bots[activeBots[t]].intervalId = h

\* C38 (as claimed): the accounts list of a Watch holds each token id at most
\* once, whatever tokenIds list the start request carries, so no account
\* reacts, comments and shares more than once on one dispatched item.
C38_AccountsAreDistinct ==
    /\ \A b \in BotIds :
          Has(bots[b], "accounts") =>
              \A i, j \in DOMAIN bots[b].accounts :
                  i # j => bots[b].accounts[i].id # bots[b].accounts[j].id
    /\ \A t \in Targets, p \in PostIds, a \in {"a", "b"} : EntryCount(t, p, a) <= 1

\* C39: removing a token changes only the token store.  The step of the
\* delete request leaves the registry, the bot objects, the timers, the
\* executions in flight and the action log as they are; the accounts list of a
\* bot object never changes once it is built; and an execution that ends a
\* call for an account whose token has been removed goes on with that account:
\* it makes the next call of the account or appends the account's log entry.
\* (An execution has ended its call when no execution of its bot and kind is
\* at that post, account and operation any more.)
C39_RemoveLeavesWatches ==
    /\ [][removed' # removed =>
             UNCHANGED <<activeBots, bots, timers, tasks, actionLog, issued, stateFile>>]_vars
    /\ [][\A b \in BotIds :
             (Has(bots[b], "accounts") /\ Has(bots'[b], "accounts"))
               => bots'[b].accounts = bots[b].accounts]_vars
    /\ [][\A tk \in InFlight :
             (/\ tk.pc \in Operations
              /\ bots[tk.bot].accounts[tk.i].id \in removed
              /\ ~\E u \in BagToSet(tasks') :
                     /\ u.bot = tk.bot /\ u.kind = tk.kind /\ u.post = tk.post
                     /\ u.i = tk.i /\ u.pc = tk.pc)
               => IF tk.pc = "share"
                  THEN EntryCount(tk.target, tk.post, bots[tk.bot].accounts[tk.i].id)' =
                           EntryCount(tk.target, tk.post, bots[tk.bot].accounts[tk.i].id) + 1
                  ELSE <<tk.bot, tk.post, tk.i, NextStage(tk.pc)>> \in issued']_vars

\* C39 witness: token a is not in the store any more; the running Watch of T1
\* still has account a first in its list, has an entry of a for p3 in the log
\* and a timer tick awaits the comment made with a's token for p2
C39_Witness ==
    /\ "a" \in removed /\ ~HasToken(storedTokens, "a")
    /\ \E b \in BotIds :
          /\ activeBots["T1"] = b /\ IsRunning(bots[b])
          /\ bots[b].accounts[1].id = "a"
          /\ EntryCount("T1", "p3", "a") = 1
          /\ \E tk \in TicksOf(b) : tk.post = "p2" /\ tk.i = 1 /\ tk.pc = "comment"

\* the operations of an account that follow op
OpsAfter(op) == Cardinality({o \in Operations : Rank(1, o) > Rank(1, op)})

\* the Graph calls an execution past its fetch can still make: those of the
\* retry it is in, of the operations and accounts that follow for its post,
\* and of the posts left in the answer
Budget(tk) ==
    LET n == Len(bots[tk.bot].accounts)
        perAccount == attempts * Cardinality(Operations)
    IN  (IF tk.pc \in Operations THEN (attempts - tk.calls) + attempts * OpsAfter(tk.pc) ELSE 0)
          + perAccount * (n - tk.i)
          + perAccount * n * Len(tk.rest)

\* the steps it can still take: awaiting a call, in the backoff after a
\* failed one, or in the delay after an account
Variant(tk) ==
    3 * Budget(tk) + (CASE tk.pc = "delay" -> 0 [] tk.backoff -> 1 [] OTHER -> 2)

\* execution u of the next state is what the step has made of execution tk
Becomes(tk, u) ==
    /\ CopiesIn(tk, tasks') < CopiesIn(tk, tasks)
    /\ CopiesIn(u, tasks') > CopiesIn(u, tasks)

====
